---- MODULE Spec2Model ----
(***************************************************************************)
(* kifudojo: the game recorder of GameLog (src/components/GoBoard.tsx,     *)
(* lines 238-690), its Go helpers (getNeighbors, getGroup, countLiberties),*)
(* the replay fold (replayGame) and the GoBoard click plumbing.            *)
(*                                                                         *)
(* A board (BoardState, Record<string, StoneColor>) is a function whose    *)
(* DOMAIN is the set of occupied keys; the key `${x},${y}` is the pair     *)
(* <<x, y>> and key.split(',').map(Number) reads its two components.       *)
(***************************************************************************)
EXTENDS Integers, Sequences, FiniteSets, TLC

\* ------------------------------------------------------------------ bounds
\* Clicks on the recorder's interaction targets are drawn from the first
\* NCells cells of the corner at (0,0), counted along its diagonals:
\* (0,0), (0,1), (1,0), (0,2), (1,1), (2,0), (0,3), ...
NCells == 6
\* The recorder is clicked no more once the move list has MaxMoves moves.
MaxMoves == 6
\* The longer games, in which one stone captures two groups, are played on the
\* first DeepCells cells and stop at DeepMoves moves.
DeepCells == 7
DeepMoves == 7
\* The editor saves at most MaxSaves shapes.
MaxSaves == 1
\* The games that are saved have at most SubMoves moves, and at most MaxLogs
\* of them are saved.
SubMoves == 3
MaxLogs == 1

\* ------------------------------------------------------- program constants
padding == 30
cellSize == 40
InitialSize == 19
InitialBoardSize == 19
MemorizeSeconds == 5
BoardSizes == {9, 13, 19}
Colors == {"black", "white"}

\* GameLog's form and recorder state (GoBoard.tsx, lines 306-314), with the
\* outcome of the last event in 'last'
VARIABLES size, moves, board, captures, turn, last

\* whether the form with the recorder is shown (line 299), and the two player
\* names of the form (lines 304-305); the date, the result and the notes are
\* texts the program only stores
VARIABLES isFormOpen, blackPlayer, whitePlayer

\* App's state (App.tsx, lines 23-39); 'now' is the clock Date.now() reads
VARIABLES view, boardSize, stones, currentToolColor, savedShapes, newShapeName,
          drillPhase, drillTarget, drillTimer, feedback, selectedShapeId, now

\* the saved games (App.tsx, line 32) and GameLog's replay state (GoBoard.tsx,
\* lines 300, 317-318)
VARIABLES logs, expandedLogId, replayMoveIndex, replayAuto

\* the arguments and the result of a call of one of the Go logic helpers
VARIABLES fnArg, fnRet

formVars == <<isFormOpen, blackPlayer, whitePlayer>>

recVars == <<size, moves, board, captures, turn, last, formVars>>

appVars == <<view, boardSize, stones, currentToolColor, savedShapes, newShapeName,
             drillPhase, drillTarget, drillTimer, feedback, selectedShapeId, now>>

viewerVars == <<logs, expandedLogId, replayMoveIndex, replayAuto>>

fnVars == <<fnArg, fnRet>>

vars == <<recVars, appVars, viewerVars, fnVars>>

\* ------------------------------------------------------ BoardState (sparse)
EmptyBoard == [k \in {} |-> "black"]

Has(b, k) == k \in DOMAIN b

\* b[key]: undefined (here "none") when the key is absent
Get(b, k) == IF k \in DOMAIN b THEN b[k] ELSE "none"

\* b[key] = color
Put(b, k, c) == [j \in (DOMAIN b) \cup {k} |-> IF j = k THEN c ELSE b[j]]

\* keys.forEach(k => delete b[k])
DeleteAll(b, ks) == [j \in (DOMAIN b) \ ks |-> b[j]]

Range(s) == {s[i] : i \in DOMAIN s}

Opponent(c) == IF c = "black" THEN "white" ELSE "black"

\* --------------------------------------------------- Simple Go Logic Helpers
\* neighbours with the right and the lower bound off by one
getNeighbors_OffByOne(x, y, sz) ==
    (IF x > 0 THEN << <<x - 1, y>> >> ELSE << >>)
 \o (IF x < sz THEN << <<x + 1, y>> >> ELSE << >>)
 \o (IF y > 0 THEN << <<x, y - 1>> >> ELSE << >>)
 \o (IF y < sz THEN << <<x, y + 1>> >> ELSE << >>)

getNeighbors(x, y, sz) ==
    (IF x > 0 THEN << <<x - 1, y>> >> ELSE << >>)
 \o (IF x < sz - 1 THEN << <<x + 1, y>> >> ELSE << >>)
 \o (IF y > 0 THEN << <<x, y - 1>> >> ELSE << >>)
 \o (IF y < sz - 1 THEN << <<x, y + 1>> >> ELSE << >>)

\* getGroup returns null for an empty start cell; a group is never empty, so
\* null is the empty sequence here.
NoGroup == << >>

\* a visit that follows stones of either colour
RECURSIVE visitNeighbors_AnyColor(_, _, _, _)
visitNeighbors_AnyColor(b, color, nbrs, st) ==
    IF nbrs = << >> THEN st
    ELSE LET key == Head(nbrs) IN
         IF Has(b, key) /\ key \notin st.visited
         THEN visitNeighbors_AnyColor(b, color, Tail(nbrs),
                  [group   |-> Append(st.group, key),
                   queue   |-> Append(st.queue, key),
                   visited |-> st.visited \cup {key}])
         ELSE visitNeighbors_AnyColor(b, color, Tail(nbrs), st)

\* the forEach over the neighbours of one dequeued cell (lines 265-272);
\* st = [group, queue, visited]
RECURSIVE visitNeighbors(_, _, _, _)
visitNeighbors(b, color, nbrs, st) ==
    IF nbrs = << >> THEN st
    ELSE LET key == Head(nbrs) IN
         IF Get(b, key) = color /\ key \notin st.visited
         THEN visitNeighbors(b, color, Tail(nbrs),
                  [group   |-> Append(st.group, key),
                   queue   |-> Append(st.queue, key),
                   visited |-> st.visited \cup {key}])
         ELSE visitNeighbors(b, color, Tail(nbrs), st)

\* while (queue.length > 0) { queue.shift() ... } (lines 263-273)
RECURSIVE floodFill(_, _, _, _)
floodFill(b, color, sz, st) ==
    IF st.queue = << >> THEN st.group
    ELSE LET c == Head(st.queue) IN
         floodFill(b, color, sz,
             visitNeighbors(b, color, getNeighbors(c[1], c[2], sz),
                            [st EXCEPT !.queue = Tail(@)]))

getGroup(b, startX, startY, sz) ==
    LET color == Get(b, <<startX, startY>>) IN
    IF color = "none" THEN NoGroup
    ELSE floodFill(b, color, sz,
             [group   |-> << <<startX, startY>> >>,
              queue   |-> << <<startX, startY>> >>,
              visited |-> {<<startX, startY>>}])

\* liberties kept in an array: an empty cell counts once for each member of
\* the group it touches
RECURSIVE countLiberties_PerMember(_, _, _)
countLiberties_PerMember(b, group, sz) ==
    IF group = << >> THEN 0
    ELSE Len(SelectSeq(getNeighbors(Head(group)[1], Head(group)[2], sz),
                       LAMBDA n : ~Has(b, n)))
         + countLiberties_PerMember(b, Tail(group), sz)

\* liberties is a Set: the empty neighbours of the group's members
countLiberties(b, group, sz) ==
    Cardinality({n \in UNION {Range(getNeighbors(k[1], k[2], sz)) : k \in Range(group)} :
                    ~Has(b, n)})

\* ------------------------------------------------------------ Recorder Logic
\* the capture loop deleting only the neighbouring stone, not its group
RECURSIVE removeDead_StoneOnly(_, _, _, _)
removeDead_StoneOnly(nbrs, st, opponent, sz) ==
    IF nbrs = << >> THEN st
    ELSE LET n == Head(nbrs)
             group == getGroup(st.board, n[1], n[2], sz)
         IN IF Get(st.board, n) = opponent
               /\ group # NoGroup
               /\ countLiberties(st.board, group, sz) = 0
            THEN removeDead_StoneOnly(Tail(nbrs),
                     [board          |-> DeleteAll(st.board, {n}),
                      capturedStones |-> st.capturedStones + 1],
                     opponent, sz)
            ELSE removeDead_StoneOnly(Tail(nbrs), st, opponent, sz)

\* the capture loop leaving at the first captured group
RECURSIVE removeDead_FirstOnly(_, _, _, _)
removeDead_FirstOnly(nbrs, st, opponent, sz) ==
    IF nbrs = << >> THEN st
    ELSE LET n == Head(nbrs)
             group == getGroup(st.board, n[1], n[2], sz)
         IN IF Get(st.board, n) = opponent
               /\ group # NoGroup
               /\ countLiberties(st.board, group, sz) = 0
            THEN [board          |-> DeleteAll(st.board, Range(group)),
                  capturedStones |-> st.capturedStones + Len(group)]
            ELSE removeDead_FirstOnly(Tail(nbrs), st, opponent, sz)

\* "Remove opponent groups with 0 liberties" (lines 335-345);
\* st = [board, capturedStones]
RECURSIVE removeDead(_, _, _, _)
removeDead(nbrs, st, opponent, sz) ==
    IF nbrs = << >> THEN st
    ELSE LET n == Head(nbrs)
             group == getGroup(st.board, n[1], n[2], sz)
         IN IF Get(st.board, n) = opponent
               /\ group # NoGroup
               /\ countLiberties(st.board, group, sz) = 0
            THEN removeDead(Tail(nbrs),
                     [board          |-> DeleteAll(st.board, Range(group)),
                      capturedStones |-> st.capturedStones + Len(group)],
                     opponent, sz)
            ELSE removeDead(Tail(nbrs), st, opponent, sz)

\* a capture loop that counts the dead stones and leaves them on the board
tentative_CountsOnly(b, t, sz, x, y) ==
    [board          |-> Put(b, <<x, y>>, t),
     capturedStones |-> removeDead(getNeighbors(x, y, sz),
                                   [board |-> Put(b, <<x, y>>, t), capturedStones |-> 0],
                                   Opponent(t), sz).capturedStones]

\* lines 326-345: the tentative board and the captured-stone count
tentative(b, t, sz, x, y) ==
    removeDead(getNeighbors(x, y, sz),
               [board |-> Put(b, <<x, y>>, t), capturedStones |-> 0],
               Opponent(t), sz)

\* a recorder without the suicide check
isSuicide_Never(nb, sz, x, y) == FALSE

\* the suicide check counting the liberties of the placed stone alone
isSuicide_StoneOnly(nb, sz, x, y) ==
    countLiberties(nb, << <<x, y>> >>, sz) = 0

\* lines 347-349: the suicide check on the board after the capture loop
isSuicide(nb, sz, x, y) ==
    LET myGroup == getGroup(nb, x, y, sz) IN
    myGroup # NoGroup /\ countLiberties(nb, myGroup, sz) = 0

\* the suicide check made on the board as placed, before the capture loop
checkedBoard_BeforeCaptures(b, t, tv, x, y) == Put(b, <<x, y>>, t)

\* line 348: the suicide check reads newBoard, the object the capture loop
\* has deleted from
checkedBoard(b, t, tv, x, y) == tv.board

\* a tally that counts the captures, not the stones captured
addCaptures_CountsOne(cap, t, capturedStones) ==
    IF capturedStones > 0 THEN [cap EXCEPT ![t] = @ + 1] ELSE cap

\* the captured stones credited to the colour that lost them
addCaptures_ToOpponent(cap, t, capturedStones) ==
    IF capturedStones > 0 THEN [cap EXCEPT ![Opponent(t)] = @ + capturedStones] ELSE cap

\* lines 358-363
addCaptures(cap, t, capturedStones) ==
    IF capturedStones > 0 THEN [cap EXCEPT ![t] = @ + capturedStones] ELSE cap

\* What a call of the recorder's handleBoardClick did: the return path taken,
\* the value read at the clicked key (line 322), and whether playStoneSound
\* (line 324) and alert (line 350) were called.
Did(result, found, sound, alert) ==
    [result |-> result, found |-> found, sound |-> sound, alert |-> alert]

\* a click on a stone removing it, as the editor's toggle does
onOccupied_Toggles(b, mv, cap, t, k) ==
    [board |-> DeleteAll(b, {k}), moves |-> mv, captures |-> cap, turn |-> t,
     last |-> Did("occupied", b[k], FALSE, FALSE)]

\* line 322: "Cannot place on top"
onOccupied(b, mv, cap, t, k) ==
    [board |-> b, moves |-> mv, captures |-> cap, turn |-> t,
     last |-> Did("occupied", b[k], FALSE, FALSE)]

\* the rejected placement made on the state's own board object
onSuicide_KeepsTentative(b, mv, cap, t, tv) ==
    [board |-> tv.board, moves |-> mv, captures |-> cap, turn |-> t,
     last |-> Did("suicide", "none", TRUE, TRUE)]

\* lines 349-352: the alert and the return; newBoard is dropped
onSuicide(b, mv, cap, t, tv) ==
    [board |-> b, moves |-> mv, captures |-> cap, turn |-> t,
     last |-> Did("suicide", "none", TRUE, TRUE)]

\* an accepted move that leaves the turn with the colour that has played
onAccept_KeepsTurn(mv, cap, t, tv, x, y) ==
    [board    |-> tv.board,
     moves    |-> Append(mv, [x |-> x, y |-> y, color |-> t,
                              captures |-> tv.capturedStones]),
     captures |-> addCaptures(cap, t, tv.capturedStones),
     turn     |-> t,
     last     |-> Did("placed", "none", TRUE, FALSE)]

\* lines 354-365: "Update State"
onAccept(mv, cap, t, tv, x, y) ==
    [board    |-> tv.board,
     moves    |-> Append(mv, [x |-> x, y |-> y, color |-> t,
                              captures |-> tv.capturedStones]),
     captures |-> addCaptures(cap, t, tv.capturedStones),
     turn     |-> Opponent(t),
     last     |-> Did("placed", "none", TRUE, FALSE)]

\* a recorder with a ko rule: the capture of the one stone that has itself
\* just captured one stone is rejected
handleBoardClick_Ko(b, mv, cap, t, sz, x, y) ==
    IF Has(b, <<x, y>>)
    THEN onOccupied(b, mv, cap, t, <<x, y>>)
    ELSE LET tv == tentative(b, t, sz, x, y) IN
         IF isSuicide(checkedBoard(b, t, tv, x, y), sz, x, y)
         THEN onSuicide(b, mv, cap, t, tv)
         ELSE IF /\ mv # << >>
                 /\ mv[Len(mv)].captures = 1
                 /\ tv.capturedStones = 1
                 /\ ~Has(tv.board, <<mv[Len(mv)].x, mv[Len(mv)].y>>)
         THEN [board |-> b, moves |-> mv, captures |-> cap, turn |-> t,
               last |-> Did("ko", "none", TRUE, TRUE)]
         ELSE onAccept(mv, cap, t, tv, x, y)

\* GameLog.handleBoardClick (lines 321-366): the recorder state after the call
handleBoardClick(b, mv, cap, t, sz, x, y) ==
    IF Has(b, <<x, y>>)
    THEN onOccupied(b, mv, cap, t, <<x, y>>)
    ELSE LET tv == tentative(b, t, sz, x, y) IN
         IF isSuicide(checkedBoard(b, t, tv, x, y), sz, x, y)
         THEN onSuicide(b, mv, cap, t, tv)
         ELSE onAccept(mv, cap, t, tv, x, y)

\* -------------------------------------------------------------- Replay Logic
\* replayGame without its capture loop: the stones are only placed
replayCaptures_Skipped(nbrs, st, color, bSize) == st

\* the neighbours.forEach of replayGame (lines 401-409); st = [board, captures]
RECURSIVE replayCaptures(_, _, _, _)
replayCaptures(nbrs, st, color, bSize) ==
    IF nbrs = << >> THEN st
    ELSE LET n == Head(nbrs)
             group == getGroup(st.board, n[1], n[2], bSize)
         IN IF Get(st.board, n) = Opponent(color)
               /\ group # NoGroup
               /\ countLiberties(st.board, group, bSize) = 0
            THEN replayCaptures(Tail(nbrs),
                     [board    |-> DeleteAll(st.board, Range(group)),
                      captures |-> [st.captures EXCEPT ![color] = @ + Len(group)]],
                     color, bSize)
            ELSE replayCaptures(Tail(nbrs), st, color, bSize)

\* moveList.forEach(m => ...) (lines 394-410)
RECURSIVE replayFrom(_, _, _)
replayFrom(moveList, bSize, st) ==
    IF moveList = << >> THEN st
    ELSE LET m == Head(moveList) IN
         replayFrom(Tail(moveList), bSize,
             replayCaptures(getNeighbors(m.x, m.y, bSize),
                            [st EXCEPT !.board = Put(@, <<m.x, m.y>>, m.color)],
                            m.color, bSize))

replayGame(moveList, bSize) ==
    replayFrom(moveList, bSize,
               [board |-> EmptyBoard, captures |-> [black |-> 0, white |-> 0]])

\* moves.slice(0, -1)
\* a slice that drops the first move instead of the last
DropLast_DropsFirst(s) == SubSeq(s, 2, Len(s))

\* moves.slice(0, -1)
DropLast(s) == SubSeq(s, 1, Len(s) - 1)

\* undoLastMove with the parity of the turn inverted
undoLastMove_TurnFlipped(mv, sz) ==
    LET newMoves == DropLast(mv)
        r == replayGame(newMoves, sz)
    IN [board    |-> r.board,
        captures |-> r.captures,
        moves    |-> newMoves,
        turn     |-> IF Len(newMoves) % 2 = 0 THEN "white" ELSE "black"]

\* undoLastMove (lines 368-380), for a non-empty move list
undoLastMove(mv, sz) ==
    LET newMoves == DropLast(mv)
        r == replayGame(newMoves, sz)
    IN [board    |-> r.board,
        captures |-> r.captures,
        moves    |-> newMoves,
        turn     |-> IF Len(newMoves) % 2 = 0 THEN "black" ELSE "white"]

\* resetRecorder (lines 382-387)
resetRecorder ==
    [moves |-> << >>, board |-> EmptyBoard,
     captures |-> [black |-> 0, white |-> 0], turn |-> "black"]

\* Math.round(v) is floor(v + 1/2); here v = (raw - padding) / cellSize
GridOf(raw) == (2 * (raw - padding) + cellSize) \div (2 * cellSize)

boardPixelSize(sz) == (sz - 1) * cellSize + padding * 2

\* the range check of GoBoard.handleBoardClick admitting x = size
GoBoardClick_OffByOne(b, mv, cap, t, sz, xRaw, yRaw) ==
    LET xGrid == GridOf(xRaw)
        yGrid == GridOf(yRaw)
    IN IF xGrid >= 0 /\ xGrid <= sz /\ yGrid >= 0 /\ yGrid < sz
       THEN handleBoardClick(b, mv, cap, t, sz, xGrid, yGrid)
       ELSE [board |-> b, moves |-> mv, captures |-> cap, turn |-> t,
             last |-> Did("outOfBounds", "none", FALSE, FALSE)]

\* GoBoard.handleBoardClick (lines 25-40) of the recorder's board, whose
\* onIntersectionClick is the recorder's handleBoardClick (lines 567-572)
GoBoardClick(b, mv, cap, t, sz, xRaw, yRaw) ==
    LET xGrid == GridOf(xRaw)
        yGrid == GridOf(yRaw)
    IN IF xGrid >= 0 /\ xGrid < sz /\ yGrid >= 0 /\ yGrid < sz
       THEN handleBoardClick(b, mv, cap, t, sz, xGrid, yGrid)
       ELSE [board |-> b, moves |-> mv, captures |-> cap, turn |-> t,
             last |-> Did("outOfBounds", "none", FALSE, FALSE)]

\* ------------------------------------------------------------- App (App.tsx)
\* a value that may be null or undefined: absent, or present with a value
Absent(v) == [present |-> FALSE, value |-> v]
Present(v) == [present |-> TRUE, value |-> v]

\* the keys of an object, in the order a forEach visits them
RECURSIVE KeysOf(_)
KeysOf(S) ==
    IF S = {} THEN << >>
    ELSE LET k == CHOOSE k \in S : TRUE IN <<k>> \o KeysOf(S \ {k})

Digit == <<"0", "1", "2", "3", "4", "5", "6", "7", "8", "9">>

\* Number.prototype.toString of a non-negative integer
RECURSIVE toString(_)
toString(n) ==
    IF n < 10 THEN Digit[n + 1] ELSE toString(n \div 10) \o Digit[(n % 10) + 1]

NoFeedback == Absent([missing |-> << >>, extra |-> << >>, correct |-> << >>])
NoTarget == Absent(EmptyBoard)

\* a comparison that takes a stone of either colour for the right one
RECURSIVE checkTarget_AnyStone(_, _, _, _)
checkTarget_AnyStone(keys, target, actual, st) ==
    IF keys = << >> THEN st
    ELSE LET key == Head(keys) IN
         IF Has(actual, key)
         THEN checkTarget_AnyStone(Tail(keys), target, actual,
                  [st EXCEPT !.correct = Append(@, key)])
         ELSE checkTarget_AnyStone(Tail(keys), target, actual,
                  [st EXCEPT !.missing = Append(@, key)])

\* the forEach of lines 156-162 over the entries of drillTarget;
\* st = [missing, correct]
RECURSIVE checkTarget(_, _, _, _)
checkTarget(keys, target, actual, st) ==
    IF keys = << >> THEN st
    ELSE LET key == Head(keys) IN
         IF Get(actual, key) = target[key]
         THEN checkTarget(Tail(keys), target, actual,
                  [st EXCEPT !.correct = Append(@, key)])
         ELSE checkTarget(Tail(keys), target, actual,
                  [st EXCEPT !.missing = Append(@, key)])

\* extras that stop at the stones the target does not have
RECURSIVE checkExtras_AbsentOnly(_, _, _, _)
checkExtras_AbsentOnly(keys, target, actual, extra) ==
    IF keys = << >> THEN extra
    ELSE LET key == Head(keys) IN
         IF ~Has(target, key)
         THEN checkExtras_AbsentOnly(Tail(keys), target, actual, Append(extra, key))
         ELSE checkExtras_AbsentOnly(Tail(keys), target, actual, extra)

\* the forEach of lines 165-173 over the keys of stones
RECURSIVE checkExtras(_, _, _, _)
checkExtras(keys, target, actual, extra) ==
    IF keys = << >> THEN extra
    ELSE LET key == Head(keys) IN
         IF ~Has(target, key)
         THEN checkExtras(Tail(keys), target, actual, Append(extra, key))
         ELSE IF actual[key] # target[key]
         THEN checkExtras(Tail(keys), target, actual, Append(extra, key))
         ELSE checkExtras(Tail(keys), target, actual, extra)

\* a check that keeps a stone of the wrong colour out of 'missing'
checkDrill_Disjoint(target, actual) ==
    LET st == checkTarget(KeysOf(DOMAIN target), target, actual,
                          [missing |-> << >>, correct |-> << >>])
    IN [missing |-> SelectSeq(st.missing, LAMBDA k : ~Has(actual, k)),
        correct |-> st.correct,
        extra   |-> checkExtras(KeysOf(DOMAIN actual), target, actual, << >>)]

\* checkDrill's three arrays (lines 151-173) for a target that is not null
checkDrill(target, actual) ==
    LET st == checkTarget(KeysOf(DOMAIN target), target, actual,
                          [missing |-> << >>, correct |-> << >>])
    IN [missing |-> st.missing,
        correct |-> st.correct,
        extra   |-> checkExtras(KeysOf(DOMAIN actual), target, actual, << >>)]

\* -------------------------------------------------------------------- state
\* GameLog as it is mounted (lines 299-318), with its form closed, or shown
\* after a click on New Record (line 495)
GameLogMount(open) ==
    /\ isFormOpen = open
    /\ blackPlayer = ""
    /\ whitePlayer = ""
    /\ size = InitialSize
    /\ moves = << >>
    /\ board = EmptyBoard
    /\ captures = [black |-> 0, white |-> 0]
    /\ turn = "black"
    /\ last = Did("init", "none", FALSE, FALSE)
    /\ expandedLogId = ""
    /\ replayMoveIndex = -1
    /\ replayAuto = FALSE

GameLogInit == GameLogMount(FALSE)

\* App as it is mounted (App.tsx, lines 23-39), with nothing in storage, on
\* the page v
AppInit(v) ==
    /\ view = v
    /\ boardSize = InitialBoardSize
    /\ stones = EmptyBoard
    /\ currentToolColor = "black"
    /\ savedShapes = << >>
    /\ newShapeName = ""
    /\ drillPhase = "idle"
    /\ drillTarget = NoTarget
    /\ drillTimer = 0
    /\ feedback = NoFeedback
    /\ selectedShapeId = ""
    /\ now = 1
    /\ logs = << >>

\* no helper has been called
FnIdle ==
    /\ fnArg = [board |-> EmptyBoard, target |-> EmptyBoard, size |-> InitialSize,
                cells |-> {}]
    /\ fnRet = [fn |-> "none"]

\* the Game Log page has just been opened and its form shown
Init ==
    /\ GameLogMount(TRUE)
    /\ AppInit("log")
    /\ FnIdle

\* the place of cell c in the count along the diagonals of the corner
Rank(c) == ((c[1] + c[2]) * (c[1] + c[2] + 1)) \div 2 + c[1] + 1

\* the first n cells of the corner
Cells(n) == {c \in (0 .. n) \X (0 .. n) : Rank(c) <= n}

\* the cells whose interaction targets are clicked
ClickCells == Cells(NCells)

\* An interaction target of the recorder's GoBoard is clicked (lines 206-224):
\* onIntersectionClick(x, y) is the recorder's handleBoardClick.
TargetClick(x, y) ==
    /\ isFormOpen
    /\ \E r \in {handleBoardClick(board, moves, captures, turn, size, x, y)} :
       /\ board' = r.board
       /\ moves' = r.moves
       /\ captures' = r.captures
       /\ turn' = r.turn
       /\ last' = r.last
    /\ UNCHANGED <<size, formVars, appVars, viewerVars, fnVars>>

\* Pixels of the SVG's margin, which no interaction target covers (the
\* targets span padding - cellSize/2 .. boardPixelSize - padding + cellSize/2)
MarginPixels(sz) == {5, boardPixelSize(sz) - 5}

\* The SVG itself is clicked (line 85): in its left or right margin at the
\* height of the first row, or in its top or bottom margin at the first column.
SvgClick(xRaw, yRaw) ==
    /\ isFormOpen
    /\ \E r \in {GoBoardClick(board, moves, captures, turn, size, xRaw, yRaw)} :
       /\ board' = r.board
       /\ moves' = r.moves
       /\ captures' = r.captures
       /\ turn' = r.turn
       /\ last' = r.last
    /\ UNCHANGED <<size, formVars, appVars, viewerVars, fnVars>>

\* The Undo Move button (line 575), disabled on an empty move list
UndoMove ==
    /\ isFormOpen
    /\ Len(moves) # 0
    /\ \E r \in {undoLastMove(moves, size)} :
       /\ board' = r.board
       /\ captures' = r.captures
       /\ moves' = r.moves
       /\ turn' = r.turn
    /\ last' = Did("undone", "none", FALSE, FALSE)
    /\ UNCHANGED <<size, formVars, appVars, viewerVars, fnVars>>

\* The Clear Board button (line 578), disabled on an empty move list
ClearBoard ==
    /\ isFormOpen
    /\ Len(moves) # 0
    /\ moves' = resetRecorder.moves
    /\ board' = resetRecorder.board
    /\ captures' = resetRecorder.captures
    /\ turn' = resetRecorder.turn
    /\ last' = Did("reset", "none", FALSE, FALSE)
    /\ UNCHANGED <<size, formVars, appVars, viewerVars, fnVars>>

\* the New Record / Cancel button (line 495)
ToggleForm ==
    /\ isFormOpen' = ~isFormOpen
    /\ last' = Did("form", "none", FALSE, FALSE)
    /\ UNCHANGED <<blackPlayer, whitePlayer, size, moves, board, captures, turn,
                   appVars, viewerVars, fnVars>>

PlayerNames == {"", "x"}

\* the Black Player input of the form (line 530)
TypeBlack(n) ==
    /\ isFormOpen
    /\ blackPlayer' = n
    /\ last' = Did("typed", "none", FALSE, FALSE)
    /\ UNCHANGED <<isFormOpen, whitePlayer, size, moves, board, captures, turn,
                   appVars, viewerVars, fnVars>>

\* the White Player input of the form (line 534)
TypeWhite(n) ==
    /\ isFormOpen
    /\ whitePlayer' = n
    /\ last' = Did("typed", "none", FALSE, FALSE)
    /\ UNCHANGED <<isFormOpen, blackPlayer, size, moves, board, captures, turn,
                   appVars, viewerVars, fnVars>>

\* the SVG's margin is clicked, beside the first row or the first column
MarginClick ==
    \E m \in MarginPixels(size) : SvgClick(m, padding) \/ SvgClick(padding, m)

Next ==
    \/ Len(moves) < MaxMoves /\ \E c \in ClickCells : TargetClick(c[1], c[2])
    \/ Len(moves) < MaxMoves /\ MarginClick
    \/ UndoMove
    \/ ClearBoard

Spec == Init /\ [][Next]_vars

DeepNext ==
    \/ Len(moves) < DeepMoves /\ \E c \in Cells(DeepCells) : TargetClick(c[1], c[2])
    \/ Len(moves) < DeepMoves /\ MarginClick
    \/ UndoMove
    \/ ClearBoard

DeepSpec == Init /\ [][DeepNext]_vars

\* ---------------------------------------------------------------- App events
\* The editor saves no more once the clock has reached MaxSaves + 1, and the
\* stones of the editor and of the drill are set on the first and on the last
\* intersection of the board.
EditorCells(sz) == {<<0, 0>>, <<sz - 1, sz - 1>>}

ShapeNames == {"", "a"}

\* the last intersection of a board
FarCorner(sz) == <<sz - 1, sz - 1>>

\* the board sizes that are chosen: the smallest and the largest
ChosenSizes == {9, 19}

\* a click that takes a stone away only when it has the tool's colour, and
\* recolours it otherwise
handleIntersectionClick_Recolours(st, phase, tool, x, y) ==
    IF phase = "memorize" \/ phase = "feedback" THEN st
    ELSE IF Get(st, <<x, y>>) = tool THEN DeleteAll(st, {<<x, y>>})
    ELSE Put(st, <<x, y>>, tool)

\* a click handler that toggles the cell in every phase of the drill
handleIntersectionClick_AnyPhase(st, phase, tool, x, y) ==
    IF Has(st, <<x, y>>) THEN DeleteAll(st, {<<x, y>>})
    ELSE Put(st, <<x, y>>, tool)

\* handleIntersectionClick (lines 72-91): the stones after the call
handleIntersectionClick(st, phase, tool, x, y) ==
    IF phase = "memorize" \/ phase = "feedback" THEN st
    ELSE IF Has(st, <<x, y>>) THEN DeleteAll(st, {<<x, y>>})
    ELSE Put(st, <<x, y>>, tool)

\* GoBoard renders its interaction targets unless it is read-only (GoBoard.tsx,
\* line 206); the drill's board is read-only while memorizing and in feedback
\* (line 458), the editor's never (lines 337-341)
BoardClickable ==
    \/ view = "editor"
    \/ view = "drill" /\ drillPhase = "rebuild"

\* a click that toggles the cell in the object stones refers to, which is the
\* stones object of a saved shape after that shape was loaded
IntersectionClick_InPlace(x, y) ==
    /\ BoardClickable
    /\ stones' = handleIntersectionClick(stones, drillPhase, currentToolColor, x, y)
    /\ savedShapes' = [i \in DOMAIN savedShapes |->
                          IF savedShapes[i].stones = stones
                          THEN [savedShapes[i] EXCEPT !.stones = stones']
                          ELSE savedShapes[i]]
    /\ UNCHANGED <<view, boardSize, currentToolColor, newShapeName,
                   drillPhase, drillTarget, drillTimer, feedback, selectedShapeId,
                   now, recVars, viewerVars, fnVars>>

\* an intersection of the editor's or the drill's board is clicked
\* (lines 337-341, 454-460)
IntersectionClick(x, y) ==
    /\ BoardClickable
    /\ stones' = handleIntersectionClick(stones, drillPhase, currentToolColor, x, y)
    /\ UNCHANGED <<view, boardSize, currentToolColor, savedShapes, newShapeName,
                   drillPhase, drillTarget, drillTimer, feedback, selectedShapeId,
                   now, recVars, viewerVars, fnVars>>

\* the tool-colour buttons of the editor (lines 302-317) and of the rebuild
\* phase (lines 463-482)
SetToolColor(c) ==
    /\ BoardClickable
    /\ currentToolColor' = c
    /\ UNCHANGED <<view, boardSize, stones, savedShapes, newShapeName, drillPhase,
                   drillTarget, drillTimer, feedback, selectedShapeId, now,
                   recVars, viewerVars, fnVars>>

\* the board-size buttons of the editor (lines 286-298)
SizeButton(s) ==
    /\ view = "editor"
    /\ boardSize' = s
    /\ stones' = EmptyBoard
    /\ UNCHANGED <<view, currentToolColor, savedShapes, newShapeName, drillPhase,
                   drillTarget, drillTimer, feedback, selectedShapeId, now,
                   recVars, viewerVars, fnVars>>

\* endDrill (lines 179-184)
endDrill ==
    /\ drillPhase' = "idle"
    /\ feedback' = NoFeedback
    /\ drillTarget' = NoTarget
    /\ stones' = EmptyBoard

\* the editor's Clear Board button (line 331): clearBoard (lines 93-98)
ClearEditor ==
    /\ view = "editor"
    /\ IF drillPhase # "idle"
       THEN endDrill
       ELSE /\ stones' = EmptyBoard
            /\ UNCHANGED <<drillPhase, feedback, drillTarget>>
    /\ UNCHANGED <<view, boardSize, currentToolColor, savedShapes, newShapeName,
                   drillTimer, selectedShapeId, now, recVars, viewerVars, fnVars>>

\* the Shape Name input (lines 321-327)
TypeName(n) ==
    /\ view = "editor"
    /\ newShapeName' = n
    /\ UNCHANGED <<view, boardSize, stones, currentToolColor, savedShapes,
                   drillPhase, drillTarget, drillTimer, feedback, selectedShapeId,
                   now, recVars, viewerVars, fnVars>>

\* saveShape (lines 100-117); Date.now() reads the clock, which has moved on
\* by the next save
SaveShape ==
    /\ view = "editor"
    /\ IF newShapeName = ""
       THEN UNCHANGED <<savedShapes, newShapeName, now>>
       ELSE /\ savedShapes' = Append(savedShapes,
                   [id |-> toString(now), name |-> newShapeName,
                    size |-> boardSize, stones |-> stones])
            /\ newShapeName' = ""
            /\ now' = now + 1
    /\ UNCHANGED <<view, boardSize, stones, currentToolColor, drillPhase,
                   drillTarget, drillTimer, feedback, selectedShapeId,
                   recVars, viewerVars, fnVars>>

\* a saved shape of the editor's list is clicked (line 358)
LoadShape(i) ==
    /\ view = "editor"
    /\ boardSize' = savedShapes[i].size
    /\ stones' = savedShapes[i].stones
    /\ UNCHANGED <<view, currentToolColor, savedShapes, newShapeName, drillPhase,
                   drillTarget, drillTimer, feedback, selectedShapeId, now,
                   recVars, viewerVars, fnVars>>

\* deleteShape (lines 119-125), the deletion confirmed
DeleteShape(i) ==
    /\ view = "editor"
    /\ savedShapes' = SelectSeq(savedShapes, LAMBDA sh : sh.id # savedShapes[i].id)
    /\ selectedShapeId' =
          IF selectedShapeId = savedShapes[i].id THEN "" ELSE selectedShapeId
    /\ UNCHANGED <<view, boardSize, stones, currentToolColor, newShapeName,
                   drillPhase, drillTarget, drillTimer, feedback, now,
                   recVars, viewerVars, fnVars>>

\* GameLog is rendered on the Game Log page only (lines 506-512): leaving the
\* page unmounts it, and its state is gone when it is mounted again
GameLogAfter(id) ==
    IF view = "log" /\ id # "log"
    THEN /\ isFormOpen' = FALSE
         /\ blackPlayer' = ""
         /\ whitePlayer' = ""
         /\ size' = InitialSize
         /\ moves' = << >>
         /\ board' = EmptyBoard
         /\ captures' = [black |-> 0, white |-> 0]
         /\ turn' = "black"
         /\ last' = Did("init", "none", FALSE, FALSE)
         /\ expandedLogId' = ""
         /\ replayMoveIndex' = -1
         /\ replayAuto' = FALSE
    ELSE UNCHANGED <<recVars, expandedLogId, replayMoveIndex, replayAuto>>

\* NavButton's onClick (lines 209-218)
NavButton(id) ==
    /\ view' = id
    /\ IF id = "editor"
       THEN /\ endDrill
            /\ newShapeName' = ""
       ELSE UNCHANGED <<drillPhase, feedback, drillTarget, stones, newShapeName>>
    /\ GameLogAfter(id)
    /\ UNCHANGED <<boardSize, currentToolColor, savedShapes, drillTimer,
                   selectedShapeId, now, logs, fnVars>>

\* startDrill (lines 128-136)
startDrill(shape) ==
    /\ boardSize' = shape.size
    /\ stones' = shape.stones
    /\ drillTarget' = Present(shape.stones)
    /\ drillPhase' = "memorize"
    /\ drillTimer' = MemorizeSeconds
    /\ feedback' = NoFeedback
    /\ view' = "drill"

\* a shape of the drill page's list is clicked (line 404), or Random Drill
\* draws it (startRandomDrill, lines 138-146)
SelectShape(i) ==
    /\ view = "drill"
    /\ drillPhase = "idle"
    /\ selectedShapeId' = savedShapes[i].id
    /\ startDrill(savedShapes[i])
    /\ UNCHANGED <<currentToolColor, savedShapes, newShapeName, now,
                   recVars, viewerVars, fnVars>>

\* an interval that takes two seconds off the countdown
Tick_ByTwo ==
    /\ drillPhase = "memorize"
    /\ drillTimer > 0
    /\ drillTimer' = drillTimer - 2
    /\ UNCHANGED <<view, boardSize, stones, currentToolColor, savedShapes,
                   newShapeName, drillPhase, drillTarget, feedback,
                   selectedShapeId, now, recVars, viewerVars, fnVars>>

\* the interval of the drill's timer fires (lines 59-62)
Tick ==
    /\ drillPhase = "memorize"
    /\ drillTimer > 0
    /\ drillTimer' = drillTimer - 1
    /\ UNCHANGED <<view, boardSize, stones, currentToolColor, savedShapes,
                   newShapeName, drillPhase, drillTarget, feedback,
                   selectedShapeId, now, recVars, viewerVars, fnVars>>

\* an effect that ends the memorize phase whatever the countdown shows
TimeUp_AnyTime ==
    /\ drillPhase = "memorize"
    /\ stones' = EmptyBoard
    /\ drillPhase' = "rebuild"
    /\ UNCHANGED <<view, boardSize, currentToolColor, savedShapes, newShapeName,
                   drillTarget, drillTimer, feedback, selectedShapeId, now,
                   recVars, viewerVars, fnVars>>

\* the time is up (lines 63-67)
TimeUp ==
    /\ drillPhase = "memorize"
    /\ drillTimer = 0
    /\ stones' = EmptyBoard
    /\ drillPhase' = "rebuild"
    /\ UNCHANGED <<view, boardSize, currentToolColor, savedShapes, newShapeName,
                   drillTarget, drillTimer, feedback, selectedShapeId, now,
                   recVars, viewerVars, fnVars>>

\* the Check Answer button (line 431): checkDrill (lines 148-177)
CheckDrill ==
    /\ view = "drill"
    /\ drillPhase = "rebuild"
    /\ IF ~drillTarget.present
       THEN UNCHANGED <<feedback, drillPhase>>
       ELSE /\ feedback' = Present(checkDrill(drillTarget.value, stones))
            /\ drillPhase' = "feedback"
    /\ UNCHANGED <<view, boardSize, stones, currentToolColor, savedShapes,
                   newShapeName, drillTarget, drillTimer, selectedShapeId, now,
                   recVars, viewerVars, fnVars>>

\* the Retry button (line 437): retryDrill (lines 186-191)
RetryDrill ==
    /\ view = "drill"
    /\ drillPhase = "feedback"
    /\ IF selectedShapeId # "" /\ \E i \in DOMAIN savedShapes :
                                      savedShapes[i].id = selectedShapeId
       THEN LET i == CHOOSE i \in DOMAIN savedShapes :
                        /\ savedShapes[i].id = selectedShapeId
                        /\ \A j \in 1 .. i - 1 : savedShapes[j].id # selectedShapeId
            IN startDrill(savedShapes[i])
       ELSE UNCHANGED <<boardSize, stones, drillTarget, drillPhase, drillTimer,
                        feedback, view>>
    /\ UNCHANGED <<currentToolColor, savedShapes, newShapeName, selectedShapeId,
                   now, recVars, viewerVars, fnVars>>

\* the Done button (line 440)
DoneDrill ==
    /\ view = "drill"
    /\ drillPhase = "feedback"
    /\ drillPhase' = "idle"
    /\ UNCHANGED <<view, boardSize, stones, currentToolColor, savedShapes,
                   newShapeName, drillTarget, drillTimer, feedback,
                   selectedShapeId, now, recVars, viewerVars, fnVars>>

\* the drill's X button (lines 445-449)
QuitDrill ==
    /\ view = "drill"
    /\ drillPhase # "idle"
    /\ drillPhase # "feedback"
    /\ endDrill
    /\ UNCHANGED <<view, boardSize, currentToolColor, savedShapes, newShapeName,
                   drillTimer, selectedShapeId, now, recVars, viewerVars, fnVars>>

\* the App has just been opened, on its editor
AppStart ==
    /\ GameLogInit
    /\ AppInit("editor")
    /\ FnIdle

AppNext ==
    \/ \E c \in EditorCells(boardSize) : IntersectionClick(c[1], c[2])
    \/ \E c \in Colors : SetToolColor(c)
    \/ \E s \in ChosenSizes : SizeButton(s)
    \/ ClearEditor
    \/ \E n \in ShapeNames : TypeName(n)
    \/ now <= MaxSaves /\ SaveShape
    \/ \E i \in DOMAIN savedShapes : LoadShape(i)
    \/ \E i \in DOMAIN savedShapes : DeleteShape(i)
    \/ \E id \in {"editor", "drill", "log"} : NavButton(id)
    \/ \E i \in DOMAIN savedShapes : SelectShape(i)
    \/ Tick
    \/ TimeUp
    \/ CheckDrill
    \/ RetryDrill
    \/ DoneDrill
    \/ QuitDrill

AppSpec == AppStart /\ [][AppNext]_vars

\* ------------------------------------------------------- the drill's timer
\* The drills of shapes of black stones on the last intersection of the large
\* board. The interval of line 60 fires one second after the effect has set
\* it, unless the effect's cleanup has cleared it before, and the effect's
\* second branch (lines 63-67) runs with the render that finds the countdown
\* at 0: each of the two steps is taken once it stays possible.
DrillNext ==
    \/ IntersectionClick(FarCorner(boardSize)[1], FarCorner(boardSize)[2])
    \/ ClearEditor
    \/ TypeName("a")
    \/ now <= MaxSaves /\ SaveShape
    \/ \E i \in DOMAIN savedShapes : LoadShape(i)
    \/ \E i \in DOMAIN savedShapes : DeleteShape(i)
    \/ \E id \in {"editor", "drill", "log"} : NavButton(id)
    \/ \E i \in DOMAIN savedShapes : SelectShape(i)
    \/ Tick
    \/ TimeUp
    \/ CheckDrill
    \/ RetryDrill
    \/ DoneDrill
    \/ QuitDrill

DrillSpec == AppStart /\ [][DrillNext]_vars /\ WF_vars(Tick) /\ WF_vars(TimeUp)

\* ------------------------------------------------- boards of several sizes
\* a size select that leaves the recorder as it is
SizeSelect_NoReset(s) ==
    /\ isFormOpen
    /\ size' = s
    /\ last' = Did("resized", "none", FALSE, FALSE)
    /\ UNCHANGED <<moves, board, captures, turn, formVars, appVars, viewerVars, fnVars>>

\* The Board Size select of the form (GoBoard.tsx, lines 515-518):
\* setSize, then resetRecorder
SizeSelect(s) ==
    /\ isFormOpen
    /\ size' = s
    /\ moves' = resetRecorder.moves
    /\ board' = resetRecorder.board
    /\ captures' = resetRecorder.captures
    /\ turn' = resetRecorder.turn
    /\ last' = Did("resized", "none", FALSE, FALSE)
    /\ UNCHANGED <<formVars, appVars, viewerVars, fnVars>>

\* The recorder and the editor on boards of several sizes: black stones on the
\* last intersection of the recorder, and on the first and the last one of
\* the editor and the drill.
SizedNext ==
    \/ view = "log" /\ TargetClick(FarCorner(size)[1], FarCorner(size)[2])
    \/ view = "log" /\ UndoMove
    \/ view = "log" /\ ClearBoard
    \/ view = "log" /\ \E s \in ChosenSizes : SizeSelect(s)
    \/ view = "log" /\ ToggleForm
    \/ \E c \in EditorCells(boardSize) : IntersectionClick(c[1], c[2])
    \/ \E s \in ChosenSizes : SizeButton(s)
    \/ ClearEditor
    \/ TypeName("a")
    \/ now <= MaxSaves /\ SaveShape
    \/ \E i \in DOMAIN savedShapes : LoadShape(i)
    \/ \E i \in DOMAIN savedShapes : DeleteShape(i)
    \/ \E id \in {"editor", "drill", "log"} : NavButton(id)
    \/ \E i \in DOMAIN savedShapes : SelectShape(i)
    \/ Tick
    \/ TimeUp
    \/ CheckDrill
    \/ RetryDrill
    \/ DoneDrill
    \/ QuitDrill

SizedSpec == AppStart /\ [][SizedNext]_vars

\* ------------------------------------------------- calls of the Go helpers
\* The helpers are called on every board of black and white stones on the
\* first NCells cells of the corner at (0,0) or of the opposite corner, on the
\* smallest and on the largest board. The drill's check compares the board
\* with a target that is the board itself, the board with the colours
\* exchanged, or the board with its stones of one colour only.
Mirror(c, sz) == <<sz - 1 - c[1], sz - 1 - c[2]>>

CornerCells(sz) == {Cells(NCells), {Mirror(c, sz) : c \in Cells(NCells)}}

\* the board that holds the stones of f, a colouring of cells with "none" for
\* the cells left empty
BoardOf(f) == [k \in {c \in DOMAIN f : f[c] # "none"} |-> f[k]]

\* the targets a board is checked against
Targets(b) ==
    {b,
     [k \in DOMAIN b |-> Opponent(b[k])],
     [k \in {c \in DOMAIN b : b[c] = "black"} |-> b[k]]}

FnInit ==
    /\ GameLogInit
    /\ AppInit("log")
    /\ fnRet = [fn |-> "none"]
    /\ \E sz \in ChosenSizes : \E cells \in CornerCells(sz) :
       \E f \in [cells -> Colors \cup {"none"}] :
       \E t \in Targets(BoardOf(f)) :
          fnArg = [board |-> BoardOf(f), target |-> t, size |-> sz, cells |-> cells]

CallGetNeighbors(x, y) ==
    /\ fnRet' = [fn |-> "getNeighbors", x |-> x, y |-> y,
                 value |-> getNeighbors(x, y, fnArg.size)]
    /\ UNCHANGED <<fnArg, recVars, appVars, viewerVars>>

CallGetGroup(x, y) ==
    /\ fnRet' = [fn |-> "getGroup", x |-> x, y |-> y,
                 value |-> getGroup(fnArg.board, x, y, fnArg.size)]
    /\ UNCHANGED <<fnArg, recVars, appVars, viewerVars>>

\* countLiberties is called on the group getGroup returns, as everywhere in
\* the code (lines 339, 348, 404)
CallCountLiberties(x, y) ==
    /\ Has(fnArg.board, <<x, y>>)
    /\ \E group \in {getGroup(fnArg.board, x, y, fnArg.size)} :
          fnRet' = [fn |-> "countLiberties", x |-> x, y |-> y, group |-> group,
                    value |-> countLiberties(fnArg.board, group, fnArg.size)]
    /\ UNCHANGED <<fnArg, recVars, appVars, viewerVars>>

\* a check that takes the stones it has examined off the board
CallCheckDrill_Consumes ==
    /\ fnRet' = [fn |-> "checkDrill",
                 value |-> checkDrill(fnArg.target, fnArg.board)]
    /\ fnArg' = [fnArg EXCEPT !.board = EmptyBoard]
    /\ UNCHANGED <<recVars, appVars, viewerVars>>

\* checkDrill's comparison (App.tsx, lines 151-173) of drillTarget, here the
\* target, with stones, here the board: it reads both and writes neither
CallCheckDrill ==
    /\ fnRet' = [fn |-> "checkDrill",
                 value |-> checkDrill(fnArg.target, fnArg.board)]
    /\ UNCHANGED <<fnArg, recVars, appVars, viewerVars>>

FnNext ==
    \/ \E c \in fnArg.cells : CallGetNeighbors(c[1], c[2])
    \/ \E c \in fnArg.cells : CallGetGroup(c[1], c[2])
    \/ \E c \in fnArg.cells : CallCountLiberties(c[1], c[2])
    \/ CallCheckDrill

FnSpec == FnInit /\ [][FnNext]_vars

\* ------------------------------------------------------- the replay viewer
\* Array.prototype.slice(0, end)
Slice0(s, end) ==
    LET e == IF end < 0 THEN (IF Len(s) + end < 0 THEN 0 ELSE Len(s) + end)
             ELSE IF end > Len(s) THEN Len(s) ELSE end
    IN SubSeq(s, 1, e)

\* logs.find(l => l.id === id): the first such log, or undefined
Find(ls, id) ==
    IF \E i \in DOMAIN ls : ls[i].id = id
    THEN Present(ls[CHOOSE i \in DOMAIN ls :
                      /\ ls[i].id = id
                      /\ \A j \in 1 .. i - 1 : ls[j].id # id])
    ELSE Absent([id |-> "", size |-> InitialSize, moves |-> << >>,
                 finalStones |-> EmptyBoard,
                 captures |-> [black |-> 0, white |-> 0]])

NoReplayState == Absent([board |-> EmptyBoard, captures |-> [black |-> 0, white |-> 0],
                         lastMove |-> << >>])

\* s[s.length - 1]: undefined (here the empty sequence) for an empty array,
\* the one element otherwise
LastOf(s) == IF s = << >> THEN << >> ELSE <<s[Len(s)]>>

\* a replay state one move short of the cursor
currentReplayState_OneShort(ls, id, index) ==
    IF id = "" THEN NoReplayState
    ELSE LET log == Find(ls, id) IN
         IF ~log.present THEN NoReplayState
         ELSE LET movesUntilIndex == Slice0(log.value.moves, index)
                  r == replayGame(movesUntilIndex, log.value.size)
              IN Present([board |-> r.board, captures |-> r.captures,
                          lastMove |-> LastOf(movesUntilIndex)])

\* currentReplayState (lines 414-425); lastMove is the empty sequence when
\* undefined and holds the one move otherwise
currentReplayState(ls, id, index) ==
    IF id = "" THEN NoReplayState
    ELSE LET log == Find(ls, id) IN
         IF ~log.present THEN NoReplayState
         ELSE LET movesUntilIndex == Slice0(log.value.moves, index + 1)
                  r == replayGame(movesUntilIndex, log.value.size)
              IN Present([board |-> r.board, captures |-> r.captures,
                          lastMove |-> LastOf(movesUntilIndex)])

\* the record handleSubmit hands to onAddLog (lines 453-464), without the
\* texts of the form
GameRecordOf(id, sz, b, mv, cap) ==
    [id |-> id, size |-> sz, finalStones |-> b, moves |-> mv, captures |-> cap]

\* the recorder states n accepted clicks on the given cells lead to
RECURSIVE Recorded(_, _, _)
Recorded(cells, n, sz) ==
    IF n = 0
    THEN {[board |-> EmptyBoard, moves |-> << >>,
           captures |-> [black |-> 0, white |-> 0], turn |-> "black"]}
    ELSE LET after(g) ==
                 {handleBoardClick(g.board, g.moves, g.captures, g.turn, sz, c[1], c[2]) :
                      c \in cells}
         IN {[board |-> r.board, moves |-> r.moves, captures |-> r.captures,
              turn |-> r.turn] :
                 r \in {r \in UNION {after(g) : g \in Recorded(cells, n - 1, sz)} :
                            r.last.result = "placed"}}

\* The Game Log page is opened with two games in storage: one recorded on the
\* first NCells cells of the corner and saved after MaxMoves moves, and one
\* saved without a move.
ViewInit ==
    /\ GameLogInit
    /\ FnIdle
    /\ view = "log"
    /\ boardSize = InitialBoardSize
    /\ stones = EmptyBoard
    /\ currentToolColor = "black"
    /\ savedShapes = << >>
    /\ newShapeName = ""
    /\ drillPhase = "idle"
    /\ drillTarget = NoTarget
    /\ drillTimer = 0
    /\ feedback = NoFeedback
    /\ selectedShapeId = ""
    /\ now = 3
    /\ \E g \in Recorded(ClickCells, MaxMoves, InitialSize) :
          logs = <<GameRecordOf(toString(1), InitialSize, g.board, g.moves, g.captures),
                   GameRecordOf(toString(2), InitialSize, resetRecorder.board,
                                resetRecorder.moves, resetRecorder.captures)>>

\* a header click that expands the log and leaves the cursor where it was
HeaderClick_KeepsCursor(i) ==
    /\ IF expandedLogId # logs[i].id
       THEN /\ expandedLogId' = logs[i].id
            /\ replayAuto' = FALSE
            /\ UNCHANGED replayMoveIndex
       ELSE /\ expandedLogId' = ""
            /\ UNCHANGED <<replayMoveIndex, replayAuto>>
    /\ UNCHANGED <<logs, recVars, appVars, fnVars>>

\* the header of a log is clicked (lines 601-609)
HeaderClick(i) ==
    /\ IF expandedLogId # logs[i].id
       THEN /\ expandedLogId' = logs[i].id
            /\ replayMoveIndex' = Len(logs[i].moves) - 1
            /\ replayAuto' = FALSE
       ELSE /\ expandedLogId' = ""
            /\ UNCHANGED <<replayMoveIndex, replayAuto>>
    /\ UNCHANGED <<logs, recVars, appVars, fnVars>>

\* the replay controls are rendered for the expanded log when it has moves
\* (lines 619, 630)
ControlsShown(i) == expandedLogId = logs[i].id /\ Len(logs[i].moves) > 0

\* a replay control (lines 666-672) sets the cursor to index
SetCursor(i, index) ==
    /\ ControlsShown(i)
    /\ replayMoveIndex' = index
    /\ UNCHANGED <<logs, expandedLogId, replayAuto, recVars, appVars, fnVars>>

SkipBack(i) == SetCursor(i, -1)

StepBack(i) ==
    SetCursor(i, IF replayMoveIndex - 1 > -1 THEN replayMoveIndex - 1 ELSE -1)

StepForward(i) ==
    SetCursor(i, IF replayMoveIndex + 1 < Len(logs[i].moves) - 1
                 THEN replayMoveIndex + 1 ELSE Len(logs[i].moves) - 1)

SkipForward(i) == SetCursor(i, Len(logs[i].moves) - 1)

\* the Play button (line 668)
ToggleAuto(i) ==
    /\ ControlsShown(i)
    /\ replayAuto' = ~replayAuto
    /\ UNCHANGED <<logs, expandedLogId, replayMoveIndex, recVars, appVars, fnVars>>

\* an interval that starts the replay over once the last move is shown
AutoTick_StartsOver ==
    /\ replayAuto
    /\ expandedLogId # ""
    /\ LET log == Find(logs, expandedLogId) IN
       IF log.present /\ replayMoveIndex < Len(log.value.moves) - 1
       THEN replayMoveIndex' = replayMoveIndex + 1
       ELSE replayMoveIndex' = -1
    /\ UNCHANGED <<replayAuto, logs, expandedLogId, recVars, appVars, fnVars>>

\* the interval of the automatic replay fires (lines 429-441)
AutoTick ==
    /\ replayAuto
    /\ expandedLogId # ""
    /\ LET log == Find(logs, expandedLogId) IN
       IF log.present /\ replayMoveIndex < Len(log.value.moves) - 1
       THEN /\ replayMoveIndex' = replayMoveIndex + 1
            /\ UNCHANGED replayAuto
       ELSE /\ replayAuto' = FALSE
            /\ UNCHANGED replayMoveIndex
    /\ UNCHANGED <<logs, expandedLogId, recVars, appVars, fnVars>>

\* deleteLog (App.tsx, lines 200-205), the deletion confirmed
DeleteLog(i) ==
    /\ logs' = SelectSeq(logs, LAMBDA l : l.id # logs[i].id)
    /\ UNCHANGED <<expandedLogId, replayMoveIndex, replayAuto, recVars,
                   view, boardSize, stones, currentToolColor, savedShapes,
                   newShapeName, drillPhase, drillTarget, drillTimer, feedback,
                   selectedShapeId, now, fnVars>>

ViewNext ==
    \/ \E i \in DOMAIN logs : HeaderClick(i)
    \/ \E i \in DOMAIN logs : SkipBack(i)
    \/ \E i \in DOMAIN logs : StepBack(i)
    \/ \E i \in DOMAIN logs : StepForward(i)
    \/ \E i \in DOMAIN logs : SkipForward(i)
    \/ \E i \in DOMAIN logs : ToggleAuto(i)
    \/ AutoTick
    \/ \E i \in DOMAIN logs : DeleteLog(i)

ViewSpec == ViewInit /\ [][ViewNext]_vars

\* ------------------------------------------- two records that hold moves
\* The number of moves after which the shorter of the two games was saved.
ShortMoves == 2

\* The Game Log page is opened with two games in storage: one saved after
\* MaxMoves moves, and one that was saved when the same moves had been
\* played up to the move ShortMoves.
ReplayInit ==
    /\ GameLogInit
    /\ FnIdle
    /\ view = "log"
    /\ boardSize = InitialBoardSize
    /\ stones = EmptyBoard
    /\ currentToolColor = "black"
    /\ savedShapes = << >>
    /\ newShapeName = ""
    /\ drillPhase = "idle"
    /\ drillTarget = NoTarget
    /\ drillTimer = 0
    /\ feedback = NoFeedback
    /\ selectedShapeId = ""
    /\ now = 3
    /\ \E g \in Recorded(ClickCells, MaxMoves, InitialSize) :
       \E h \in {replayGame(SubSeq(g.moves, 1, ShortMoves), InitialSize)} :
          logs = <<GameRecordOf(toString(1), InitialSize, g.board, g.moves, g.captures),
                   GameRecordOf(toString(2), InitialSize, h.board,
                                SubSeq(g.moves, 1, ShortMoves), h.captures)>>

ReplaySpec == ReplayInit /\ [][ViewNext]_vars

\* The automatic replay left to itself: the user clicks and presses buttons
\* while the replay is off, and does nothing from the moment Play has switched
\* it on. The interval of line 430 is set while replayAuto holds and a log is
\* expanded, and fires every 500 ms until the effect's cleanup clears it: its
\* step is taken once it stays possible.
AutoNext ==
    \/ ~replayAuto /\ \E i \in DOMAIN logs : HeaderClick(i)
    \/ ~replayAuto /\ \E i \in DOMAIN logs : SkipBack(i)
    \/ ~replayAuto /\ \E i \in DOMAIN logs : StepBack(i)
    \/ ~replayAuto /\ \E i \in DOMAIN logs : StepForward(i)
    \/ ~replayAuto /\ \E i \in DOMAIN logs : SkipForward(i)
    \/ ~replayAuto /\ \E i \in DOMAIN logs : ToggleAuto(i)
    \/ ~replayAuto /\ \E i \in DOMAIN logs : DeleteLog(i)
    \/ AutoTick

AutoSpec == ReplayInit /\ [][AutoNext]_vars /\ WF_vars(AutoTick)

\* ------------------------------------------------------- saving a record
\* a submit that saves the record after the recorder has been reset
Submit_ResetFirst ==
    /\ isFormOpen
    /\ IF blackPlayer = "" /\ whitePlayer = ""
       THEN /\ last' = Did("noPlayer", "none", FALSE, TRUE)
            /\ UNCHANGED <<logs, now, moves, board, captures, turn, formVars>>
       ELSE /\ logs' = Append(logs, GameRecordOf(toString(now), size, resetRecorder.board,
                                                 moves, captures))
            /\ now' = now + 1
            /\ blackPlayer' = ""
            /\ whitePlayer' = ""
            /\ moves' = resetRecorder.moves
            /\ board' = resetRecorder.board
            /\ captures' = resetRecorder.captures
            /\ turn' = resetRecorder.turn
            /\ isFormOpen' = FALSE
            /\ last' = Did("submitted", "none", FALSE, FALSE)
    /\ UNCHANGED <<size, view, boardSize, stones, currentToolColor, savedShapes,
                   newShapeName, drillPhase, drillTarget, drillTimer, feedback,
                   selectedShapeId, expandedLogId, replayMoveIndex, replayAuto, fnVars>>

\* The Save Record button (line 548): handleSubmit (lines 446-474), with
\* addLog (App.tsx, lines 194-198); Date.now() reads the clock, which has
\* moved on by the next submit
Submit ==
    /\ isFormOpen
    /\ IF blackPlayer = "" /\ whitePlayer = ""
       THEN /\ last' = Did("noPlayer", "none", FALSE, TRUE)
            /\ UNCHANGED <<logs, now, moves, board, captures, turn, formVars>>
       ELSE /\ logs' = Append(logs, GameRecordOf(toString(now), size, board, moves,
                                                 captures))
            /\ now' = now + 1
            /\ blackPlayer' = ""
            /\ whitePlayer' = ""
            /\ moves' = resetRecorder.moves
            /\ board' = resetRecorder.board
            /\ captures' = resetRecorder.captures
            /\ turn' = resetRecorder.turn
            /\ isFormOpen' = FALSE
            /\ last' = Did("submitted", "none", FALSE, FALSE)
    /\ UNCHANGED <<size, view, boardSize, stones, currentToolColor, savedShapes,
                   newShapeName, drillPhase, drillTarget, drillTimer, feedback,
                   selectedShapeId, expandedLogId, replayMoveIndex, replayAuto, fnVars>>

\* the three intersections of the last corner of the board
LastCorner(sz) == {Mirror(c, sz) : c \in {<<0, 0>>, <<0, 1>>, <<1, 0>>}}

\* Games of at most SubMoves moves in the last corner of the small or of the
\* large board are recorded and saved until MaxLogs records are kept.
SubmitNext ==
    \/ Len(moves) < SubMoves /\ \E c \in LastCorner(size) : TargetClick(c[1], c[2])
    \/ UndoMove
    \/ \E s \in ChosenSizes : SizeSelect(s)
    \/ ToggleForm
    \/ \E n \in PlayerNames : TypeBlack(n)
    \/ \E n \in PlayerNames : TypeWhite(n)
    \/ Len(logs) < MaxLogs /\ Submit

SubmitSpec == Init /\ [][SubmitNext]_vars

\* ------------------------------------------------------------------- claims
\* the sum of the 'captures' field over the moves of colour c
RECURSIVE SumCaptures(_, _)
SumCaptures(mv, c) ==
    IF mv = << >> THEN 0
    ELSE (IF Head(mv).color = c THEN Head(mv).captures ELSE 0) + SumCaptures(Tail(mv), c)

LastMove == moves[Len(moves)]

\* C1: in every state of the recorder, replayGame over the whole move list
\* yields the live board, and the replayed tally is, per colour, the sum of
\* the 'captures' field of that colour's moves.
C1_ReplayEqualsLive ==
    \E r \in {replayGame(moves, size)} :
        /\ r.board = board
        /\ \A c \in Colors : r.captures[c] = SumCaptures(moves, c)

\* a move has just been accepted in a game in which both colours have captured
C1_Witness ==
    /\ last.result = "placed"
    /\ captures.black > 0
    /\ captures.white > 0
    /\ LastMove.captures > 0

\* C2: an accepted move followed by undoLastMove gives back the board, the
\* move list, the tally and the turn held before the move: replaying the list
\* without its last move yields the state before that move was applied.
C2_UndoRestores ==
    [][Len(moves') = Len(moves) + 1 =>
         undoLastMove(moves', size') =
             [board |-> board, captures |-> captures, moves |-> moves, turn |-> turn]]_vars

\* an undo has just taken back a move of a game with captures in its prefix
C2_Witness ==
    /\ last.result = "undone"
    /\ moves # << >>
    /\ captures.black + captures.white > 0

\* ---- groups and liberties stated on sets of cells, for the claims below
OnBoard(k, sz) == k[1] \in 0 .. sz - 1 /\ k[2] \in 0 .. sz - 1

\* the cells of the board at distance one of k
Around(k, sz) ==
    {c \in {<<k[1] - 1, k[2]>>, <<k[1] + 1, k[2]>>, <<k[1], k[2] - 1>>, <<k[1], k[2] + 1>>} :
        OnBoard(c, sz)}

RECURSIVE Grow(_, _, _, _)
Grow(b, color, S, sz) ==
    LET T == S \cup {c \in UNION {Around(k, sz) : k \in S} : Get(b, c) = color} IN
    IF T = S THEN S ELSE Grow(b, color, T, sz)

\* the maximal set of cells of k's colour connected to the occupied cell k
GroupSet(b, k, sz) == Grow(b, b[k], {k}, sz)

\* the empty cells around the cells of G
LibertySet(b, G, sz) == {c \in UNION {Around(k, sz) : k \in G} : ~Has(b, c)}

\* the groups of colour opp next to k that have no liberty on board b
DeadGroups(b, k, opp, sz) ==
    {G \in {GroupSet(b, n, sz) : n \in {n \in Around(k, sz) : Get(b, n) = opp}} :
        LibertySet(b, G, sz) = {}}

\* the board the recorder held before its last move (C2)
BeforeLast == undoLastMove(moves, size).board

\* C3: an accepted move removes exactly the stones of the opponent groups
\* next to the placed stone that have no liberty on the board with the stone
\* placed, and records the number of stones removed.
C3_CaptureExact ==
    [][Len(moves') = Len(moves) + 1 =>
         LET m == moves'[Len(moves')]
             k == <<m.x, m.y>>
             P == Put(board, k, turn)
             dead == UNION DeadGroups(P, k, Opponent(turn), size)
         IN /\ ~Has(board, k)
            /\ m.color = turn
            /\ board' = DeleteAll(P, dead)
            /\ m.captures = Cardinality(dead)]_vars

\* the last move captured one group of several stones that touched the placed
\* stone through two of its neighbours
C3_Witness ==
    /\ last.result = "placed"
    /\ LET k == <<LastMove.x, LastMove.y>>
           P == Put(BeforeLast, k, LastMove.color)
           gone == (DOMAIN P) \ (DOMAIN board)
       IN /\ Cardinality(gone \cap Around(k, size)) >= 2
          /\ \E n \in gone : GroupSet(P, n, size) = gone
          /\ LastMove.captures = Cardinality(gone)

\* C4: a step that rejects a move as suicide leaves the board, the move list,
\* the tally and the turn as they were.
C4_SuicideNoChange ==
    [][last'.result = "suicide" => UNCHANGED <<board, moves, captures, turn, size>>]_vars

\* a move has just been rejected as suicide on a board with stones of both colours
C4_Witness ==
    /\ last.result = "suicide"
    /\ \E k \in DOMAIN board : board[k] = "black"
    /\ \E k \in DOMAIN board : board[k] = "white"

\* C5: a click on an empty cell is rejected as suicide iff the group of the
\* placed stone has no liberty once the opponent groups next to it that have
\* no liberty are removed; otherwise it is accepted.
C5_SuicideIff ==
    \A c \in ClickCells :
        ~Has(board, c) =>
            \E P \in {Put(board, c, turn)} :
            \E Q \in {DeleteAll(P, UNION DeadGroups(P, c, Opponent(turn), size))} :
            \E r \in {handleBoardClick(board, moves, captures, turn, size, c[1], c[2])} :
               IF LibertySet(Q, GroupSet(Q, c, size), size) = {}
               THEN r.last.result = "suicide"
               ELSE r.last.result = "placed" /\ r.moves = Append(moves, r.moves[Len(r.moves)])

\* a move joining a group of two or more stones has just been rejected as suicide
C5_Witness ==
    /\ last.result = "suicide"
    /\ \E c \in ClickCells :
          /\ ~Has(board, c)
          /\ handleBoardClick(board, moves, captures, turn, size, c[1], c[2]).last.result = "suicide"
          /\ Cardinality(GroupSet(Put(board, c, turn), c, size)) >= 2

\* C6: a click on an occupied cell is rejected as occupied and leaves the
\* board, the move list, the tally and the turn unchanged, whatever the
\* colour of the stone.
C6_OccupiedNoChange ==
    \A k \in DOMAIN board :
        LET r == handleBoardClick(board, moves, captures, turn, size, k[1], k[2]) IN
        /\ r.last.result = "occupied"
        /\ r.board = board
        /\ r.moves = moves
        /\ r.captures = captures
        /\ r.turn = turn

\* a stone of the player to move has just been clicked
C6_Witness ==
    /\ last.result = "occupied"
    /\ last.found = turn
    /\ \E k \in DOMAIN board : board[k] # turn

\* C7: a click whose coordinate is off the board changes nothing, and no step
\* stores a stone at a coordinate off the board.
C7_OutOfBounds ==
    [][/\ last'.result = "outOfBounds" => UNCHANGED <<board, moves, captures, turn, size>>
       /\ \A k \in DOMAIN board' : OnBoard(k, size')]_vars

\* a click off the board has just been ignored during a game
C7_Witness ==
    /\ last.result = "outOfBounds"
    /\ board # EmptyBoard

\* C8: a move that leaves its own group without liberty on the board as placed,
\* while an opponent group next to it has none either, is accepted: the dead
\* groups are removed and the own group has a liberty on the board after that.
C8_CaptureBeforeSuicide ==
    \A c \in ClickCells :
        ~Has(board, c) =>
            LET P == Put(board, c, turn)
                dead == UNION DeadGroups(P, c, Opponent(turn), size)
                r == handleBoardClick(board, moves, captures, turn, size, c[1], c[2])
            IN (LibertySet(P, GroupSet(P, c, size), size) = {} /\ dead # {}) =>
                  /\ r.last.result = "placed"
                  /\ r.board = DeleteAll(P, dead)
                  /\ LibertySet(r.board, GroupSet(r.board, c, size), size) # {}

\* the last move was accepted although its group had no liberty as placed
C8_Witness ==
    /\ last.result = "placed"
    /\ LastMove.captures > 0
    /\ LET k == <<LastMove.x, LastMove.y>>
           P == Put(BeforeLast, k, LastMove.color)
       IN LibertySet(P, GroupSet(P, k, size), size) = {}

\* the orders in which the members of a sequence can be examined
Orders(s) ==
    {[i \in 1 .. Len(s) |-> s[p[i]]] :
        p \in {q \in [1 .. Len(s) -> 1 .. Len(s)] : \A i, j \in 1 .. Len(s) : q[i] = q[j] => i = j}}

\* C9: a move placed next to several opponent groups without liberty removes
\* all of them, and the capture loop gives that board and that count in
\* whatever order the neighbours are examined; so does the loop of replayGame.
C9_AllGroupsAnyOrder ==
    [][Len(moves') = Len(moves) + 1 =>
         LET m == moves'[Len(moves')]
             P == Put(board, <<m.x, m.y>>, turn)
             groups == DeadGroups(P, <<m.x, m.y>>, Opponent(turn), size)
             zero == [black |-> 0, white |-> 0]
         IN Cardinality(groups) >= 2 =>
               /\ board' = DeleteAll(P, UNION groups)
               /\ m.captures = Cardinality(UNION groups)
               /\ \A o \in Orders(getNeighbors(m.x, m.y, size)) :
                     /\ removeDead(o, [board |-> P, capturedStones |-> 0], Opponent(turn), size)
                          = [board |-> board', capturedStones |-> m.captures]
                     /\ replayCaptures(o, [board |-> P, captures |-> zero], turn, size)
                          = [board |-> board', captures |-> [zero EXCEPT ![turn] = m.captures]]]_vars

\* the last move captured two groups at once
C9_Witness ==
    /\ last.result = "placed"
    /\ LET k == <<LastMove.x, LastMove.y>>
           P == Put(BeforeLast, k, LastMove.color)
       IN /\ Cardinality(DeadGroups(P, k, Opponent(LastMove.color), size)) >= 2
          /\ DOMAIN board = (DOMAIN P) \ UNION DeadGroups(P, k, Opponent(LastMove.color), size)

\* C10: in every state of the recorder the tally of each colour is the sum of
\* the 'captures' field over that colour's moves of the move list.
C10_TallyIsSum ==
    \A c \in Colors : captures[c] = SumCaptures(moves, c)

\* a capturing move has been taken back in a game whose other captures stay
C10_Witness ==
    /\ last.result = "undone"
    /\ captures.black > 0
    /\ \E c \in ClickCells :
          /\ ~Has(board, c)
          /\ handleBoardClick(board, moves, captures, turn, size, c[1], c[2]).moves
                 # moves
          /\ LET r == handleBoardClick(board, moves, captures, turn, size, c[1], c[2])
             IN r.moves[Len(r.moves)].captures > 0

\* C11: every step either leaves the move list as it is (a rejected click),
\* appends one move at its end (an accepted move), removes exactly its last
\* move (undo) or empties it (reset); no move inside the list is ever
\* inserted, deleted or altered.
C11_AppendOrTruncate ==
    [][/\ last'.result \in {"occupied", "suicide", "outOfBounds"} => moves' = moves
       /\ last'.result = "placed" =>
              /\ Len(moves') = Len(moves) + 1
              /\ SubSeq(moves', 1, Len(moves)) = moves
       /\ last'.result = "undone" =>
              /\ Len(moves') = Len(moves) - 1
              /\ moves' = SubSeq(moves, 1, Len(moves'))
       /\ last'.result \in {"reset", "resized"} => moves' = << >>
       /\ \/ moves' = moves
          \/ Len(moves') = Len(moves) + 1 /\ SubSeq(moves', 1, Len(moves)) = moves
          \/ Len(moves') < Len(moves) /\ moves' = SubSeq(moves, 1, Len(moves'))
      ]_vars

\* a move has been taken back from a list that keeps moves of both colours,
\* one of them a capture
C11_Witness ==
    /\ last.result = "undone"
    /\ Len(moves) >= 3
    /\ \E i \in DOMAIN moves : moves[i].captures > 0

\* C12: in every state every stone of the recorder's board lies within
\* [0, size) on both axes, and every stone of the editor's and the drill's
\* board within [0, boardSize), whatever sizes were chosen, shapes loaded and
\* drills started before.
C12_KeysInRange ==
    /\ \A k \in DOMAIN board : OnBoard(k, size)
    /\ \A k \in DOMAIN stones : OnBoard(k, boardSize)
    /\ drillTarget.present => \A k \in DOMAIN drillTarget.value : OnBoard(k, boardSize)

\* the recorder has been set to the small board with a stone on the editor's
\* small board, after a shape with a stone on the last intersection of the
\* large board was saved
C12_Witness ==
    /\ last.result = "resized"
    /\ size = 9
    /\ boardSize = 9
    /\ Has(stones, <<8, 8>>)
    /\ \E i \in DOMAIN savedShapes :
          savedShapes[i].size = 19 /\ Has(savedShapes[i].stones, <<18, 18>>)

\* ---- adjacency stated on coordinates, for the claims below
Abs(n) == IF n < 0 THEN -n ELSE n

\* the cells one orthogonal step away from each other
Dist1(a, c) == Abs(a[1] - c[1]) + Abs(a[2] - c[2]) = 1

\* the cells of the 3 x 3 squares around the cells of G
Squares(G) == UNION {{<<k[1] + dx, k[2] + dy>> : dx \in -1 .. 1, dy \in -1 .. 1} : k \in G}

\* C13: getGroup returns null for an empty start cell; for an occupied one it
\* returns, each cell once, exactly the cells of the start cell's colour that a
\* chain of orthogonal steps on the board through cells of that colour reaches.
C13_GroupIsComponent ==
    fnRet.fn = "getGroup" =>
        LET b == fnArg.board
            k == <<fnRet.x, fnRet.y>>
        IN IF ~Has(b, k)
           THEN fnRet.value = NoGroup
           ELSE /\ Range(fnRet.value) = GroupSet(b, k, fnArg.size)
                /\ Len(fnRet.value) = Cardinality(Range(fnRet.value))
                /\ k \in Range(fnRet.value)
                /\ \A c \in Range(fnRet.value) : OnBoard(c, fnArg.size) /\ b[c] = b[k]
                /\ \A c \in Squares(Range(fnRet.value)) \ Range(fnRet.value) :
                       (\E g \in Range(fnRet.value) : Dist1(g, c)) => Get(b, c) # b[k]

\* a group of three or more stones was returned on a board that also holds a
\* stone of the same colour outside the group and a stone of the other colour
\* next to it
C13_Witness ==
    /\ fnRet.fn = "getGroup"
    /\ Len(fnRet.value) >= 3
    /\ \E c \in DOMAIN fnArg.board :
          /\ c \notin Range(fnRet.value)
          /\ fnArg.board[c] = fnArg.board[<<fnRet.x, fnRet.y>>]
    /\ \E c \in DOMAIN fnArg.board : \E g \in Range(fnRet.value) :
          Dist1(g, c) /\ fnArg.board[c] # fnArg.board[g]

\* C14: countLiberties returns the number of distinct empty cells of the
\* board that are one orthogonal step away from a member of the group; a cell
\* next to several members counts once.
C14_DistinctLiberties ==
    fnRet.fn = "countLiberties" =>
        fnRet.value =
            Cardinality({c \in Squares(Range(fnRet.group)) :
                            /\ OnBoard(c, fnArg.size)
                            /\ ~Has(fnArg.board, c)
                            /\ \E g \in Range(fnRet.group) : Dist1(g, c)})

\* the liberties of a group were counted that has an empty cell next to two of
\* its members
C14_Witness ==
    /\ fnRet.fn = "countLiberties"
    /\ fnRet.value >= 2
    /\ \E c \in Squares(Range(fnRet.group)) :
          /\ OnBoard(c, fnArg.size)
          /\ ~Has(fnArg.board, c)
          /\ Cardinality({g \in Range(fnRet.group) : Dist1(g, c)}) >= 2

\* the corners and the edges of a board
OnCorner(k, sz) == k[1] \in {0, sz - 1} /\ k[2] \in {0, sz - 1}
OnEdge(k, sz) == (k[1] \in {0, sz - 1}) # (k[2] \in {0, sz - 1})

\* C15: getNeighbors returns, each once, exactly the cells of the board one
\* orthogonal step away, and a lone stone on an empty board has 2 liberties
\* in a corner, 3 on an edge and 4 elsewhere.
C15_EdgesAreNoLiberties ==
    /\ fnRet.fn = "getNeighbors" =>
          LET k == <<fnRet.x, fnRet.y>> IN
          /\ \A c \in Range(fnRet.value) : OnBoard(c, fnArg.size) /\ Dist1(k, c)
          /\ \A c \in Squares({k}) :
                 OnBoard(c, fnArg.size) /\ Dist1(k, c) => c \in Range(fnRet.value)
          /\ Len(fnRet.value) = Cardinality(Range(fnRet.value))
    /\ fnRet.fn = "countLiberties" /\ DOMAIN fnArg.board = {<<fnRet.x, fnRet.y>>} =>
          LET k == <<fnRet.x, fnRet.y>> IN
          fnRet.value = IF OnCorner(k, fnArg.size) THEN 2
                        ELSE IF OnEdge(k, fnArg.size) THEN 3 ELSE 4

\* the liberties of a lone stone on the last intersection of the board were
\* counted
C15_Witness ==
    /\ fnRet.fn = "countLiberties"
    /\ DOMAIN fnArg.board = {FarCorner(fnArg.size)}
    /\ fnRet.value = 2

\* ---- the drill's check, for the claims below
\* the cells where the actual board holds a stone of the wrong colour
WrongColour(target, actual) ==
    {k \in (DOMAIN target) \cap (DOMAIN actual) : target[k] # actual[k]}

NoRepeat(s) == Len(s) = Cardinality(Range(s))

\* C16: the check files every cell the target holds under exactly one of
\* 'correct' and 'missing': under 'correct' iff the rebuilt board holds the
\* same colour there; no other cell is filed under either.
C16_CorrectOrMissing ==
    feedback.present =>
        LET T == drillTarget.value
            A == stones
            F == feedback.value
        IN /\ drillTarget.present
           /\ Range(F.correct) \cup Range(F.missing) = DOMAIN T
           /\ Range(F.correct) \cap Range(F.missing) = {}
           /\ NoRepeat(F.correct) /\ NoRepeat(F.missing)
           /\ \A k \in DOMAIN T : k \in Range(F.correct) <=> Get(A, k) = T[k]
           /\ \A k \in DOMAIN T : k \in Range(F.missing) <=>
                  (~Has(A, k) \/ Get(A, k) = Opponent(T[k]))

\* a check has found one stone right and one of the wrong colour
C16_Witness ==
    /\ feedback.present
    /\ drillPhase = "feedback"
    /\ feedback.value.correct # << >>
    /\ \E k \in Range(feedback.value.missing) : Has(stones, k)

\* C17: the check files a cell under 'extra' iff the rebuilt board holds a
\* stone there and the target holds none or one of the other colour; a stone of
\* the wrong colour is filed under both 'missing' and 'extra'; and for the
\* target {(0,0): black} and the board {(0,0): black, (1,1): white} the
\* result is correct = [(0,0)], missing = [], extra = [(1,1)].
C17_ExtraStones ==
    /\ feedback.present =>
          LET T == drillTarget.value
              A == stones
              F == feedback.value
          IN /\ Range(F.extra) =
                    {k \in DOMAIN A : ~Has(T, k) \/ T[k] = Opponent(A[k])}
             /\ NoRepeat(F.extra)
             /\ \A k \in WrongColour(T, A) :
                    k \in Range(F.missing) /\ k \in Range(F.extra)
    /\ checkDrill(Put(EmptyBoard, <<0, 0>>, "black"),
                  Put(Put(EmptyBoard, <<0, 0>>, "black"), <<1, 1>>, "white"))
          = [correct |-> << <<0, 0>> >>, missing |-> << >>,
             extra |-> << <<1, 1>> >>]

\* a check has found the one stone of the target right and another stone
\* too many
C17_Witness ==
    /\ feedback.present
    /\ drillPhase = "feedback"
    /\ feedback.value.correct = << <<0, 0>> >>
    /\ feedback.value.missing = << >>
    /\ Len(feedback.value.extra) = 1
    /\ stones[feedback.value.extra[1]] = "white"

\* C18, as claimed: 'correct', 'missing' and 'extra' are pairwise disjoint.
C18_PairwiseDisjoint ==
    feedback.present =>
        LET F == feedback.value
        IN /\ Range(F.correct) \cap Range(F.missing) = {}
           /\ Range(F.correct) \cap Range(F.extra) = {}
           /\ Range(F.missing) \cap Range(F.extra) = {}

\* C18, amended: 'correct' is disjoint from 'missing' and from 'extra', and
\* the cells that 'missing' and 'extra' share are exactly those where the
\* rebuilt board holds a stone of the wrong colour.
C18_DisjointButWrongColour ==
    feedback.present =>
        LET F == feedback.value
        IN /\ Range(F.correct) \cap Range(F.missing) = {}
           /\ Range(F.correct) \cap Range(F.extra) = {}
           /\ Range(F.missing) \cap Range(F.extra) =
                  WrongColour(drillTarget.value, stones)

\* a check has found a stone of the wrong colour, and another stone right
C18_Witness ==
    /\ feedback.present
    /\ Range(feedback.value.missing) \cap Range(feedback.value.extra) # {}
    /\ feedback.value.correct # << >>

\* ---- the recorder's own account of a game, for the claim below
\* the recorder state the clicks of the moves mv lead to from the state g
RECURSIVE Clicked(_, _, _)
Clicked(mv, sz, g) ==
    IF mv = << >> THEN g
    ELSE Clicked(Tail(mv), sz,
             handleBoardClick(g.board, g.moves, g.captures, g.turn, sz,
                              Head(mv).x, Head(mv).y))

\* C20: while a record is expanded the cursor i lies in -1 .. len - 1, and the
\* viewer shows the board and the tally of the first i + 1 moves of the
\* record: those replayGame gives for them, which are those the recorder held
\* after these moves; at cursor -1 the board is empty and the tally zero.
C20_SeekShowsPrefix ==
    \A i \in DOMAIN logs :
        expandedLogId = logs[i].id =>
            \E shown \in {currentReplayState(logs, expandedLogId, replayMoveIndex)} :
            \E prefix \in {SubSeq(logs[i].moves, 1, replayMoveIndex + 1)} :
            \E live \in {Clicked(prefix, logs[i].size, resetRecorder)} :
            \E r \in {replayGame(prefix, logs[i].size)} :
               /\ replayMoveIndex \in -1 .. Len(logs[i].moves) - 1
               /\ shown.present
               /\ shown.value.board = r.board
               /\ shown.value.captures = r.captures
               /\ shown.value.board = live.board
               /\ shown.value.captures = live.captures
               /\ replayMoveIndex = -1 =>
                      /\ shown.value.board = EmptyBoard
                      /\ shown.value.captures = [black |-> 0, white |-> 0]

\* the viewer shows a game part of the way, after a capture, on a board that
\* is not the final one
C20_Witness ==
    /\ logs # << >>
    /\ expandedLogId = logs[1].id
    /\ replayMoveIndex >= 0
    /\ replayMoveIndex < Len(logs[1].moves) - 1
    /\ LET shown == currentReplayState(logs, expandedLogId, replayMoveIndex)
       IN /\ shown.present
          /\ shown.value.captures.black + shown.value.captures.white > 0
          /\ shown.value.board # logs[1].finalStones

C22_RejectionIsSilent ==
    [][last'.result \in {"occupied", "suicide"} =>
          /\ UNCHANGED <<board, moves, captures, turn, size>>
          /\ ~last'.sound]_vars

\* ---- the positions of a game, for the claims below
\* the boards the recorder held after each proper prefix of its move list
EarlierBoards ==
    {replayGame(SubSeq(moves, 1, i), size).board : i \in 0 .. Len(moves) - 1}

\* the board the recorder held two moves ago
TwoPliesBack == replayGame(SubSeq(moves, 1, Len(moves) - 2), size).board

\* C23: a click on an empty cell that is not suicide is accepted also when the
\* board it gives is one the recorder held earlier in the game, the board
\* before the last move included: the move is appended and that board is held
\* again.
C23_NoKoRule ==
    \E earlier \in {EarlierBoards} :
    \A c \in ClickCells :
        ~Has(board, c) =>
            \E P \in {Put(board, c, turn)} :
            \E Q \in {DeleteAll(P, UNION DeadGroups(P, c, Opponent(turn), size))} :
               (Q \in earlier /\ LibertySet(Q, GroupSet(Q, c, size), size) # {}) =>
                   \E r \in {handleBoardClick(board, moves, captures, turn, size, c[1], c[2])} :
                      /\ r.last.result = "placed"
                      /\ r.board = Q
                      /\ Len(r.moves) = Len(moves) + 1

\* a stone has just been taken back in a ko: the last move captured the one
\* stone that had captured one stone the move before, and the board is the
\* board of two moves ago
C23_Witness ==
    /\ last.result = "placed"
    /\ Len(moves) >= 3
    /\ LastMove.captures = 1
    /\ moves[Len(moves) - 1].captures = 1
    /\ board = TwoPliesBack

\* C24: a click on an intersection of the editor's board, or of the drill's
\* board while rebuilding, changes that cell only: an empty cell gets a stone
\* of the tool colour, an occupied cell is emptied whatever the tool colour,
\* nothing else of the App changes, and a second click on a cell that was empty
\* gives back the stones held before the first.
C24_ClickTogglesOneCell ==
    [][\A c \in EditorCells(boardSize) :
          IntersectionClick(c[1], c[2]) =>
             /\ view = "editor" \/ drillPhase = "rebuild"
             /\ IF Has(stones, c)
                THEN DOMAIN stones' = (DOMAIN stones) \ {c}
                ELSE /\ DOMAIN stones' = (DOMAIN stones) \cup {c}
                     /\ stones'[c] = currentToolColor
                     /\ \A tool \in Colors :
                           handleIntersectionClick(stones', drillPhase', tool, c[1], c[2])
                              = stones
             /\ \A k \in ((DOMAIN stones) \cup (DOMAIN stones')) \ {c} :
                    Get(stones', k) = Get(stones, k)
             /\ UNCHANGED <<view, boardSize, currentToolColor, savedShapes, newShapeName,
                            drillPhase, drillTarget, drillTimer, feedback,
                            selectedShapeId>>]_vars

\* while rebuilding, the board holds a stone that is not of the tool colour
\* beside an empty intersection
C24_Witness ==
    /\ view = "drill"
    /\ drillPhase = "rebuild"
    /\ \E k \in DOMAIN stones : stones[k] # currentToolColor
    /\ \E c \in EditorCells(boardSize) : ~Has(stones, c)

\* C25: a drill starts in the memorize phase with the target on the board and
\* the countdown at 5; the countdown changes only by going down by one while
\* memorizing, or back to 5 at a start, and is never below 0; the memorize
\* phase is left only for idle (the user ends the drill) or, with the
\* countdown at 0, for rebuild with the board emptied; and with the timer's
\* steps taken whenever they stay possible, every memorize phase ends.
C25_CountdownEnds ==
    /\ [](drillTimer \in 0 .. MemorizeSeconds)
    /\ [][/\ (drillPhase # "memorize" /\ drillPhase' = "memorize") =>
               /\ drillTimer' = MemorizeSeconds
               /\ drillTarget'.present
               /\ stones' = drillTarget'.value
          /\ drillTimer' # drillTimer =>
               \/ drillPhase = "memorize" /\ drillTimer' = drillTimer - 1
               \/ drillPhase' = "memorize" /\ drillTimer' = MemorizeSeconds
          /\ (drillPhase = "memorize" /\ drillPhase' # "memorize") =>
               \/ drillPhase' = "idle"
               \/ /\ drillPhase' = "rebuild"
                  /\ drillTimer = 0
                  /\ stones' = EmptyBoard]_vars
    /\ (drillPhase = "memorize") ~> (drillPhase # "memorize")

\* the countdown of a drill of a shape with a stone has run out: the board is
\* empty and to be rebuilt
C25_Witness ==
    /\ drillPhase = "rebuild"
    /\ drillTimer = 0
    /\ stones = EmptyBoard
    /\ drillTarget.present
    /\ drillTarget.value # EmptyBoard

\* C26: while the drill phase is memorize, rebuild or feedback, drillTarget is
\* not null and holds the stones of the saved shape that was selected for the
\* drill; no step between the start and the end of a drill changes it; and no
\* step changes a shape that stays saved.
C26_TargetIsTheShape ==
    /\ [](drillPhase \in {"memorize", "rebuild", "feedback"} =>
            /\ drillTarget.present
            /\ \E i \in DOMAIN savedShapes :
                  /\ savedShapes[i].id = selectedShapeId
                  /\ savedShapes[i].stones = drillTarget.value)
    /\ [][/\ (drillPhase # "idle" /\ drillPhase' \in {"rebuild", "feedback"}) =>
               drillTarget' = drillTarget
          /\ \A i \in DOMAIN savedShapes : \A j \in DOMAIN savedShapes' :
               savedShapes'[j].id = savedShapes[i].id =>
                   savedShapes'[j] = savedShapes[i]]_vars

\* a shape with a stone was rebuilt differently and checked: the board holds
\* a stone, and not the stones of the target
C26_Witness ==
    /\ drillPhase = "feedback"
    /\ drillTarget.present
    /\ drillTarget.value # EmptyBoard
    /\ stones # EmptyBoard
    /\ stones # drillTarget.value
    /\ \E i \in DOMAIN savedShapes : savedShapes[i].stones = drillTarget.value

\* C27: every record kept holds as finalStones the board replayGame gives for
\* its moves at its size, and as captures the tally replayGame gives; a submit
\* with both player names blank adds no record and leaves the recorder and the
\* form as they were; a submit with a name appends one record, of the board,
\* the moves, the tally and the size held at that time, and leaves an empty
\* board, an empty move list, a zero tally and Black to play.
C27_RecordsAreConsistent ==
    /\ [](\A i \in DOMAIN logs :
            \E r \in {replayGame(logs[i].moves, logs[i].size)} :
               /\ logs[i].finalStones = r.board
               /\ logs[i].captures = r.captures)
    /\ [][/\ last'.result = "noPlayer" =>
               /\ blackPlayer = "" /\ whitePlayer = ""
               /\ UNCHANGED <<logs, size, moves, board, captures, turn, formVars>>
          /\ last'.result = "submitted" =>
               /\ blackPlayer # "" \/ whitePlayer # ""
               /\ Len(logs') = Len(logs) + 1
               /\ SubSeq(logs', 1, Len(logs)) = logs
               /\ \E rec \in {logs'[Len(logs')]} :
                     /\ rec.finalStones = board
                     /\ rec.moves = moves
                     /\ rec.captures = captures
                     /\ rec.size = size
               /\ board' = EmptyBoard
               /\ moves' = << >>
               /\ captures' = [black |-> 0, white |-> 0]
               /\ turn' = "black"
          /\ logs' # logs => last'.result = "submitted"]_vars

\* a game with a capture in the corner of the small board has just been saved
C27_Witness ==
    /\ last.result = "submitted"
    /\ logs # << >>
    /\ logs[Len(logs)].size = 9
    /\ logs[Len(logs)].captures.black > 0
    /\ Len(logs[Len(logs)].moves) = 3
    /\ moves = << >>

\* the colour of the move at place i of a move list, counted from 1
ColourAt(i) == IF i % 2 = 1 THEN "black" ELSE "white"

\* C28: in every state of the recorder the turn is Black iff the move list has
\* an even length, and the moves are Black's and White's in turn, Black's
\* first; an accepted move passes the turn to the other colour, a rejected
\* click leaves it, and an undo gives it to the colour of the move removed.
C28_TurnAlternates ==
    /\ [](/\ turn = ColourAt(Len(moves) + 1)
          /\ \A i \in DOMAIN moves : moves[i].color = ColourAt(i))
    /\ [][/\ last'.result = "placed" =>
               /\ turn' = Opponent(turn)
               /\ moves'[Len(moves')].color = turn
          /\ last'.result \in {"occupied", "suicide", "outOfBounds"} => turn' = turn
          /\ last'.result = "undone" => turn' = moves[Len(moves)].color
          /\ last'.result = "reset" => turn' = "black"]_vars

\* White's move has just been taken back after a capture by Black: it is
\* White's turn again
C28_Witness ==
    /\ last.result = "undone"
    /\ turn = "white"
    /\ Len(moves) >= 3
    /\ captures.black > 0

\* C29: in every state of the recorder, whatever moves were accepted, rejected
\* or taken back and whatever resets were made, every group of stones on the
\* board has at least one liberty.
C29_EveryGroupHasALiberty ==
    \A k \in DOMAIN board :
        LibertySet(board, GroupSet(board, k, size), size) # {}

\* a click has been rejected as suicide on a board with a group of two stones
\* that is left with one liberty
C29_Witness ==
    /\ last.result = "suicide"
    /\ \E k \in DOMAIN board :
          /\ Cardinality(GroupSet(board, k, size)) >= 2
          /\ Cardinality(LibertySet(board, GroupSet(board, k, size), size)) = 1

\* the number of stones of colour c on board b, and of moves of colour c in mv
StonesOf(b, c) == Cardinality({k \in DOMAIN b : b[k] = c})
MovesOf(mv, c) == Cardinality({i \in DOMAIN mv : mv[i].color = c})

\* C30: in every state of the recorder the stones of each colour on the board
\* are as many as the moves of that colour less the stones the other colour
\* has captured, so the stones on the board are as many as the moves less both
\* tallies; and an accepted move takes off the board stones of the opponent's
\* colour only.
C30_StonesAreConserved ==
    /\ [](/\ \A c \in Colors :
                StonesOf(board, c) = MovesOf(moves, c) - captures[Opponent(c)]
          /\ Cardinality(DOMAIN board) = Len(moves) - captures.black - captures.white)
    /\ [][last'.result = "placed" =>
             /\ \A k \in (DOMAIN board) \ (DOMAIN board') : board[k] = Opponent(turn)
             /\ \A k \in (DOMAIN board) \cap (DOMAIN board') : board'[k] = board[k]
             /\ Cardinality((DOMAIN board) \ (DOMAIN board'))
                   = captures'[turn] - captures[turn]
             /\ captures'[Opponent(turn)] = captures[Opponent(turn)]]_vars

\* a move has just captured two stones at once, and stones stay on the board
C30_Witness ==
    /\ last.result = "placed"
    /\ LastMove.captures >= 2
    /\ board # EmptyBoard
    /\ captures[LastMove.color] >= 2

\* C31: a click on an empty cell that captures, that is, beside which an
\* opponent group has no liberty once the stone is placed, is accepted, and
\* the placed stone's group has a liberty on the board it leaves; so a click
\* rejected as suicide has captured nothing.
C31_CaptureIsNeverSuicide ==
    \A c \in ClickCells :
        ~Has(board, c) =>
            \E P \in {Put(board, c, turn)} :
            \E dead \in {UNION DeadGroups(P, c, Opponent(turn), size)} :
            \E r \in {handleBoardClick(board, moves, captures, turn, size, c[1], c[2])} :
               /\ dead # {} =>
                     /\ r.last.result = "placed"
                     /\ r.moves[Len(r.moves)].captures > 0
                     /\ LibertySet(r.board, GroupSet(r.board, c, size), size) # {}
                     /\ LibertySet(r.board, GroupSet(r.board, c, size), size) \cap dead # {}
               /\ r.last.result = "suicide" =>
                     /\ dead = {}
                     /\ tentative(board, turn, size, c[1], c[2]).capturedStones = 0

\* the last move captured, and every liberty of the placed stone's group is a
\* cell the capture has emptied
C31_Witness ==
    /\ last.result = "placed"
    /\ LastMove.captures > 0
    /\ LET k == <<LastMove.x, LastMove.y>>
       IN /\ LibertySet(board, GroupSet(board, k, size), size) # {}
          /\ LibertySet(board, GroupSet(board, k, size), size) \subseteq DOMAIN BeforeLast

\* the phases of the drill in which its board is read-only (App.tsx, line 458)
ReadOnlyPhases == {"memorize", "feedback"}

\* C32: while the drill phase is memorize or feedback the board is read-only:
\* the editor's board is not shown and the drill's board takes no click, the
\* click handler called in such a phase returns the stones it was given, and a
\* step that is an intersection click leaves the stones, the drill target, the
\* feedback and the phase as they are.
C32_ReadOnlyWhileMemorizeOrFeedback ==
    /\ [](drillPhase \in ReadOnlyPhases =>
            /\ view # "editor"
            /\ ~BoardClickable
            /\ \A c \in EditorCells(boardSize) : \A tool \in Colors :
                  handleIntersectionClick(stones, drillPhase, tool, c[1], c[2]) = stones)
    /\ [][\A c \in EditorCells(boardSize) :
            (drillPhase \in ReadOnlyPhases /\ IntersectionClick(c[1], c[2]))
                => UNCHANGED <<stones, drillTarget, feedback, drillPhase>>]_vars

\* the drill's board is shown with the answer's feedback, and holds a stone
\* on one of the cells a click would toggle and none on the other
C32_Witness ==
    /\ view = "drill"
    /\ drillPhase = "feedback"
    /\ feedback.present
    /\ drillTarget.present
    /\ \E c \in EditorCells(boardSize) : Has(stones, c)
    /\ \E c \in EditorCells(boardSize) : ~Has(stones, c)

\* the changes of the drill phase: start, time up, check, retry, and from
\* every phase to idle
PhaseMoves ==
    {<<"idle", "memorize">>, <<"memorize", "rebuild">>, <<"rebuild", "feedback">>,
     <<"feedback", "memorize">>,
     <<"memorize", "idle">>, <<"rebuild", "idle">>, <<"feedback", "idle">>}

\* C33: the drill phase changes only along idle -> memorize -> rebuild ->
\* feedback, feedback -> memorize and any phase -> idle; rebuild is entered
\* only by the time-up step, from memorize with the countdown at 0; feedback
\* only by the check, from rebuild; memorize only from idle or feedback; and
\* while the editor is shown the phase is idle.
C33_PhaseOrder ==
    /\ [][drillPhase' # drillPhase =>
            /\ <<drillPhase, drillPhase'>> \in PhaseMoves
            /\ drillPhase' = "rebuild" =>
                  drillPhase = "memorize" /\ drillTimer = 0 /\ TimeUp
            /\ drillPhase' = "feedback" =>
                  drillPhase = "rebuild" /\ CheckDrill /\ feedback'.present
            /\ drillPhase' = "memorize" =>
                  /\ drillPhase \in {"idle", "feedback"}
                  /\ drillTimer' = MemorizeSeconds
                  /\ view' = "drill"]_vars
    /\ [](view = "editor" => drillPhase = "idle")
    /\ [](drillPhase \in {"idle", "memorize", "rebuild", "feedback"})

\* a drill has gone through every phase: it was started, its countdown has
\* run to 0, its answer was checked, and the result page was left for the
\* drill page, which still holds the feedback of the check
C33_Witness ==
    /\ view = "drill"
    /\ drillPhase = "idle"
    /\ drillTimer = 0
    /\ feedback.present
    /\ selectedShapeId # ""

\* C34: in every state where the drill phase is idle the drill is reset: the
\* drill target is null and the feedback is cleared, whichever control has
\* brought the phase to idle. (The stones of such a state are the editor's
\* when the drill page was opened from the editor, so only the two fields
\* that nothing but a drill sets are stated.)
C34_IdleIsReset ==
    drillPhase = "idle" => ~drillTarget.present /\ ~feedback.present

\* C35: whenever a record that holds moves is expanded, the replay cursor is
\* within -1 .. moves.length - 1, after any sequence of header clicks, replay
\* buttons, automatic steps and deletions; and a header click that expands a
\* record, another one being expanded or not, puts the cursor on that
\* record's last move.
C35_CursorInBounds ==
    /\ [](\A i \in DOMAIN logs :
            (expandedLogId = logs[i].id /\ Len(logs[i].moves) > 0) =>
                replayMoveIndex \in -1 .. Len(logs[i].moves) - 1)
    /\ [][\A i \in DOMAIN logs :
            (HeaderClick(i) /\ expandedLogId # logs[i].id) =>
                replayMoveIndex' = Len(logs[i].moves) - 1]_vars

\* the shorter of two records is expanded with the cursor on its last move,
\* which the longer record's cursor has passed, and automatic replay is on
C35_Witness ==
    /\ Len(logs) = 2
    /\ Len(logs[2].moves) < Len(logs[1].moves)
    /\ expandedLogId = logs[2].id
    /\ replayMoveIndex = Len(logs[2].moves) - 1
    /\ replayAuto

\* the ids of the records in storage
StoredIds == {toString(1), toString(2)}

\* the index of the last move of the stored record id
LastIndexOf(id) == Len(Find(logs, id).value.moves) - 1

\* C36: the automatic replay, once Play has switched it on for an expanded
\* record and the user does nothing more, ends: every tick before the last
\* move moves the cursor one move forward and never past the last move, the
\* tick at the last move switches the replay off and leaves the cursor, and
\* the replay that is on leads to the replay being off with the cursor on the
\* last move of the same record.
C36_AutoPlayTerminates ==
    /\ [][replayAuto =>
            /\ Find(logs, expandedLogId).present
            /\ IF replayMoveIndex < LastIndexOf(expandedLogId)
               THEN /\ replayMoveIndex' = replayMoveIndex + 1
                    /\ replayMoveIndex' <= LastIndexOf(expandedLogId)
                    /\ replayAuto'
               ELSE /\ replayMoveIndex' = replayMoveIndex
                    /\ ~replayAuto']_vars
    /\ \A id \in StoredIds :
          (replayAuto /\ expandedLogId = id)
              ~> (/\ ~replayAuto
                  /\ expandedLogId = id
                  /\ replayMoveIndex = LastIndexOf(id))

\* the automatic replay of the longer record is on and has come to the move
\* before the last: one tick is left to move the cursor, and one to switch off
C36_Witness ==
    /\ replayAuto
    /\ expandedLogId = toString(1)
    /\ Find(logs, toString(1)).present
    /\ replayMoveIndex = LastIndexOf(toString(1)) - 1

====
